---- MODULE Spec2Model ----
(***************************************************************************)
(* dynamicxx: a tagged-union value (BasicDynamic) with manual lifecycle.   *)
(*                                                                         *)
(* Two revisions of the header are modelled:                               *)
(*   - the current one, src/unnamed/part_001 lines 1-1113 (Blob, Clone,    *)
(*     the Owned and the Shared strategy); its definitions carry the       *)
(*     source's names, with the suffix _shared for the Shared strategy;    *)
(*   - src/include/dynamicxx/dynamicxx.h (no Blob, Owned only); its        *)
(*     definitions carry the suffix _h.                                    *)
(* Spec is the Owned strategy of the current revision, SpecH the Owned     *)
(* strategy of dynamicxx.h, SpecShared the Shared strategy, SpecResolver   *)
(* the Type Resolver applied to a catalogue of types.                      *)
(*                                                                         *)
(* An Impl is the record [tag_, live, boolean, ..., object]: tag_ is the   *)
(* discriminator, the other fields are the members of union Payload, and   *)
(* live is a ghost naming the data-carrying union member that has been     *)
(* constructed and not yet destroyed; it is "none" when no such member is  *)
(* alive (the empty structs null and undefined carry no data and are not   *)
(* tracked).  audit is a second ghost: "ok" until a payload is constructed *)
(* over a live one ("leaked") or a destructor runs on a member that is not *)
(* the live one ("wrong destructor").  Members that are not alive hold     *)
(* their default, so that equal Values are equal records.                  *)
(***************************************************************************)
EXTENDS Integers, Sequences, FiniteSets, TLC

VARIABLES vals, scope, last, ret, fault, heap, ptr, pc

vars == <<vals, scope, last, ret, fault, heap, ptr, pc>>

\* the state of the Owned strategy; what the operations on Owned Values
\* leave alone: the state of the Shared strategy and the steps a scenario
\* has taken
ovars == <<vals, scope>>
mvars == <<heap, ptr, pc>>

-----------------------------------------------------------------------------
(* Bounds *)

\* longest Array built by Emplace<Array>(n) or Push
MaxLen == 2

\* most entries an Object is grown to by indexed writes
MaxKeys == 1

\* longest Array nested in a container that v[k].Push grows
MaxInner == 1

\* most Impl objects alive at once under the Shared strategy with nested
\* Values
MaxHandles == 6

-----------------------------------------------------------------------------
(* Alternatives and payload domains *)

Slots == {"a", "b"}

Tags == {"Null", "Boolean", "Integer", "Number", "String", "Blob", "Array",
         "Object", "Undefined"}

\* alternatives whose payload is an empty struct
UnitTags == {"Null", "Undefined"}

IntegerIn == {1, 42}
NumberIn == {42}

\* Number is double: the quiet NaN, which the model writes as a number
\* outside NumberIn and compares as IEEE 754 does
NaN == -1
StringIn == {"hi"}
BlobIn == {<<7>>}
Keys == {"0", "k"}

NoPayload ==
    [boolean |-> FALSE, integer |-> 0, number |-> 0, string |-> "",
     blob |-> <<>>, array |-> <<>>, object |-> <<>>]

\* Impl(): tag_ = Tag::Undefined, payload_{} (member undefined = {})
NewImpl ==
    [tag_ |-> "Undefined", live |-> "none", audit |-> "ok"] @@ NoPayload

-----------------------------------------------------------------------------
(* union Payload: writing and reading one member *)

WithMember(T, x) ==
    CASE T = "Boolean" -> [NoPayload EXCEPT !.boolean = x]
      [] T = "Integer" -> [NoPayload EXCEPT !.integer = x]
      [] T = "Number"  -> [NoPayload EXCEPT !.number = x]
      [] T = "String"  -> [NoPayload EXCEPT !.string = x]
      [] T = "Blob"    -> [NoPayload EXCEPT !.blob = x]
      [] T = "Array"   -> [NoPayload EXCEPT !.array = x]
      [] T = "Object"  -> [NoPayload EXCEPT !.object = x]
      [] OTHER         -> NoPayload

Member(impl, T) ==
    CASE T = "Boolean" -> impl.boolean
      [] T = "Integer" -> impl.integer
      [] T = "Number"  -> impl.number
      [] T = "String"  -> impl.string
      [] T = "Blob"    -> impl.blob
      [] T = "Array"   -> impl.array
      [] T = "Object"  -> impl.object
      [] OTHER         -> "unit"

\* the payload a std::move leaves behind in the source member
MovedFromMember(T, x) ==
    CASE T = "String" -> ""
      [] T = "Blob"   -> <<>>
      [] T = "Array"  -> <<>>
      [] T = "Object" -> <<>>
      [] OTHER        -> x

-----------------------------------------------------------------------------
(* struct Impl, current revision (src/unnamed/part_001) *)

\* EmplaceRaw without its second statement: the discriminator keeps its value
EmplaceRaw_staleTag(impl, T, x) ==
    [tag_ |-> impl.tag_,
     live |-> IF T \in UnitTags THEN "none" ELSE T,
     audit |-> IF impl.live # "none" THEN "leaked" ELSE impl.audit]
    @@ WithMember(T, x)

\* new (addressof(payload_)) Type{args...}; tag_ = TagOf<Type>()
EmplaceRaw(impl, T, x) ==
    [tag_ |-> T,
     live |-> IF T \in UnitTags THEN "none" ELSE T,
     audit |-> IF impl.live # "none" THEN "leaked" ELSE impl.audit]
    @@ WithMember(T, x)

\* the destructor the switch of DestroyIfNeeded runs for a discriminator
DestructorsRun(tag) == <<tag>>

\* switch (tag_) { case X: payload_.x.~X(); break; ... } tag_ = Undefined
DestroyIfNeeded(impl) ==
    LET ran == DestructorsRun(impl.tag_)
        hit == \E i \in 1..Len(ran) : ran[i] = impl.live
        stray == \E i \in 1..Len(ran) :
                    ran[i] \notin UnitTags /\ ran[i] # impl.live
        audited == IF stray THEN "wrong destructor" ELSE impl.audit
    IN  IF hit \/ impl.live = "none"
        THEN [tag_ |-> "Undefined", live |-> "none", audit |-> audited]
             @@ NoPayload
        ELSE [impl EXCEPT !.tag_ = "Undefined", !.audit = audited]

RECURSIVE CopyRaw(_, _)
\* copy of one element of a container: BasicDynamic's implicit copy
\* constructor, which under the Owned strategy is Impl(const Impl&)
CopyElem(e) == CopyRaw(NewImpl, e)

CopyMember(T, x) ==
    CASE T = "Array"  -> [i \in 1..Len(x) |-> CopyElem(x[i])]
      [] T = "Object" -> [k \in DOMAIN x |-> CopyElem(x[k])]
      [] OTHER        -> x

CopyRaw(self, that) ==
    IF that.tag_ \in UnitTags
    THEN [self EXCEPT !.tag_ = that.tag_]
    ELSE EmplaceRaw([self EXCEPT !.tag_ = that.tag_], that.tag_,
                    CopyMember(that.tag_, Member(that, that.tag_)))

\* the source as MoveRaw's switch leaves it, before that.DestroyIfNeeded()
MovedFrom(that) ==
    IF that.tag_ \in UnitTags
    THEN that
    ELSE [tag_ |-> that.tag_, live |-> that.live, audit |-> that.audit]
         @@ WithMember(that.tag_,
                       MovedFromMember(that.tag_, Member(that, that.tag_)))

\* MoveRaw without the closing that.DestroyIfNeeded()
MoveRaw_keepsSource(self, that) ==
    [self |-> IF that.tag_ \in UnitTags
              THEN [self EXCEPT !.tag_ = that.tag_]
              ELSE EmplaceRaw([self EXCEPT !.tag_ = that.tag_], that.tag_,
                              Member(that, that.tag_)),
     that |-> MovedFrom(that)]

\* MoveRaw(Impl& that): the pair (this, that) afterwards
MoveRaw(self, that) ==
    [self |-> IF that.tag_ \in UnitTags
              THEN [self EXCEPT !.tag_ = that.tag_]
              ELSE EmplaceRaw([self EXCEPT !.tag_ = that.tag_], that.tag_,
                              Member(that, that.tag_)),
     that |-> DestroyIfNeeded(MovedFrom(that))]

Move(self, that) == MoveRaw(DestroyIfNeeded(self), that)

Copy(self, that) == CopyRaw(DestroyIfNeeded(self), that)

\* Emplace without DestroyIfNeeded()
Emplace_overLive(self, T, x) == EmplaceRaw(self, T, x)

\* Impl::Emplace: DestroyIfNeeded(); EmplaceRaw<Type>(args...)
Emplace(self, T, x) == EmplaceRaw(DestroyIfNeeded(self), T, x)

Holds(impl, T) == impl.tag_ = T

\* the member functions HoldsNull .. HoldsUndefined that Impl declares, with
\* the Alternative each asks Holds<>() about
HoldsMembers ==
    [f \in {"HoldsNull", "HoldsBoolean", "HoldsInteger", "HoldsNumber",
            "HoldsString", "HoldsBlob", "HoldsArray", "HoldsObject",
            "HoldsUndefined"} |->
        CASE f = "HoldsNull"      -> "Null"
          [] f = "HoldsBoolean"   -> "Boolean"
          [] f = "HoldsInteger"   -> "Integer"
          [] f = "HoldsNumber"    -> "Number"
          [] f = "HoldsString"    -> "String"
          [] f = "HoldsBlob"      -> "Blob"
          [] f = "HoldsArray"     -> "Array"
          [] f = "HoldsObject"    -> "Object"
          [] f = "HoldsUndefined" -> "Undefined"]

\* the member of Impl that BasicDynamic::IsX() calls
IsXCalls(X) ==
    CASE X = "Null"      -> "HoldsNull"
      [] X = "Boolean"   -> "HoldsBool"
      [] X = "Integer"   -> "HoldsInteger"
      [] X = "Number"    -> "HoldsNumber"
      [] X = "String"    -> "HoldsString"
      [] X = "Blob"      -> "HoldsBlob"
      [] X = "Array"     -> "HoldsArray"
      [] X = "Object"    -> "HoldsObject"
      [] X = "Undefined" -> "HoldsUndefined"

Answer(b) == IF b THEN "true" ELSE "false"

\* BasicDynamic::IsNull .. IsUndefined: return GetImpl().HoldsX(); a call of
\* a member Impl does not declare does not compile
IsX(impl, X) ==
    IF IsXCalls(X) \in DOMAIN HoldsMembers
    THEN Answer(Holds(impl, HoldsMembers[IsXCalls(X)]))
    ELSE "ill-formed"

\* operator== of double: a NaN compares unequal to everything, itself
\* included
NumberEquals(x, y) == x # NaN /\ y # NaN /\ x = y

RECURSIVE ImplEquals(_, _)
\* Equals without the test of the two discriminators
Equals_noTagTest(lhs, rhs) == ImplEquals(lhs, rhs)

\* BasicDynamic::Equals(const BasicDynamic&)
Equals(lhs, rhs) ==
    IF lhs.tag_ # rhs.tag_ THEN FALSE ELSE ImplEquals(lhs, rhs)

\* Impl::Equals; operator== of the containers compares element-wise
ImplEquals(self, that) ==
    CASE self.tag_ = "Null"      -> TRUE
      [] self.tag_ = "Boolean"   -> self.boolean = that.boolean
      [] self.tag_ = "Integer"   -> self.integer = that.integer
      [] self.tag_ = "Number"    -> NumberEquals(self.number, that.number)
      [] self.tag_ = "String"    -> self.string = that.string
      [] self.tag_ = "Blob"      -> self.blob = that.blob
      [] self.tag_ = "Array"     ->
            /\ Len(self.array) = Len(that.array)
            /\ \A i \in 1..Len(self.array) :
                  Equals(self.array[i], that.array[i])
      [] self.tag_ = "Object"    ->
            /\ DOMAIN self.object = DOMAIN that.object
            /\ \A k \in DOMAIN self.object :
                  Equals(self.object[k], that.object[k])
      [] self.tag_ = "Undefined" -> TRUE

RECURSIVE Clone(_)
\* Impl::Clone
Clone(self) ==
    CASE self.tag_ = "Array" ->
            EmplaceRaw(NewImpl, "Array",
                       [i \in 1..Len(self.array) |-> Clone(self.array[i])])
      [] self.tag_ = "Object" ->
            EmplaceRaw(NewImpl, "Object",
                       [k \in DOMAIN self.object |-> Clone(self.object[k])])
      [] OTHER ->
            EmplaceRaw(NewImpl, self.tag_, Member(self, self.tag_))


-----------------------------------------------------------------------------
(* Type Resolver, current revision *)

\* What the resolver asks of an input type: exact is the Alternative whose
\* own type the input is ("no" otherwise), the rest are the type traits.
Traits(e, ib, ii, if, ts, tb, ta, to) ==
    [exact |-> e, isBool |-> ib, isIntegral |-> ii, isFloat |-> if,
     toString |-> ts, toBlob |-> tb, toArray |-> ta, toObject |-> to]

\* the traits of the C++ types the model passes to the generic operations;
\* an arithmetic type is constructible into each container (the size or
\* bucket-count constructor), cstr is const char*
TraitsOf(ty) ==
    CASE ty = "bool"   -> Traits("Boolean", TRUE, TRUE, FALSE,
                                 FALSE, TRUE, TRUE, TRUE)
      [] ty \in {"int", "unsigned", "char"} ->
                          Traits("no", FALSE, TRUE, FALSE,
                                 FALSE, TRUE, TRUE, TRUE)
      [] ty \in {"float", "long double"} ->
                          Traits("no", FALSE, FALSE, TRUE,
                                 FALSE, TRUE, TRUE, TRUE)
      [] ty = "Integer" -> Traits("Integer", FALSE, TRUE, FALSE,
                                 FALSE, TRUE, TRUE, TRUE)
      [] ty = "Number" -> Traits("Number", FALSE, FALSE, TRUE,
                                 FALSE, TRUE, TRUE, TRUE)
      [] ty = "String" -> Traits("String", FALSE, FALSE, FALSE,
                                 TRUE, FALSE, FALSE, FALSE)
      [] ty = "cstr"   -> Traits("no", FALSE, FALSE, FALSE,
                                 TRUE, FALSE, FALSE, FALSE)
      [] ty = "Blob"   -> Traits("Blob", FALSE, FALSE, FALSE,
                                 FALSE, TRUE, FALSE, FALSE)
      [] ty = "Array"  -> Traits("Array", FALSE, FALSE, FALSE,
                                 FALSE, FALSE, TRUE, FALSE)
      [] ty = "Object" -> Traits("Object", FALSE, FALSE, FALSE,
                                 FALSE, FALSE, FALSE, TRUE)

\* BestFitFor<Type>, the std::conditional chain (no concepts)
BestFitFor(t) ==
    IF t.exact # "no" THEN t.exact
    ELSE IF t.isBool THEN "Boolean"
    ELSE IF t.isIntegral THEN "Integer"
    ELSE IF t.isFloat THEN "Number"
    ELSE IF t.toString THEN "String"
    ELSE IF t.toBlob THEN "Blob"
    ELSE IF t.toArray THEN "Array"
    ELSE IF t.toObject THEN "Object"
    ELSE "void"

\* BestFitFor<Type> where the compiler has concepts: an explicit
\* specialization wins; else the constrained specializations on one Type,
\* which are more specialized than those on a pack; of several whose
\* constraints hold and of which none is more specialized, none is chosen
BestFitFor_concepts(t) ==
    LET single == {A \in {"Boolean", "Integer", "Number"} :
                      \/ A = "Boolean" /\ t.isBool
                      \/ A = "Integer" /\ t.isIntegral
                      \/ A = "Number" /\ t.isFloat}
        pack == {A \in {"String", "Blob", "Array", "Object"} :
                      \/ A = "String" /\ t.toString
                      \/ A = "Blob" /\ t.toBlob
                      \/ A = "Array" /\ t.toArray
                      \/ A = "Object" /\ t.toObject}
        viable == IF single # {} THEN single ELSE pack
    IN  IF t.exact # "no" THEN t.exact
        ELSE IF viable = {} THEN "void"
        ELSE IF Cardinality(viable) = 1 THEN CHOOSE A \in viable : TRUE
        ELSE "ambiguous"

-----------------------------------------------------------------------------
(* Inputs of the operations *)

\* foreign values handed to generic assignment, Push and comparison
ForeignIn ==
    {[ty |-> "bool", v |-> TRUE], [ty |-> "int", v |-> 42],
     [ty |-> "float", v |-> 42], [ty |-> "cstr", v |-> "hi"],
     [ty |-> "Blob", v |-> <<7>>], [ty |-> "Array", v |-> <<>>],
     [ty |-> "Object", v |-> <<>>]}

\* foreign values written into container elements
ElemIn ==
    {[ty |-> "int", v |-> 42], [ty |-> "Array", v |-> <<>>]}

\* Emplace<Type>(args...): the payload that Type{args...} constructs
EmplaceIn ==
    [T : {"Null", "Undefined"}, x : {"unit"}]
    \cup [T : {"Boolean"}, x : BOOLEAN]
    \cup [T : {"Integer"}, x : IntegerIn]
    \cup [T : {"Number"}, x : NumberIn]
    \cup [T : {"String"}, x : StringIn]
    \cup [T : {"Blob"}, x : BlobIn]
    \cup [T : {"Array"}, x : {[i \in 1..n |-> NewImpl] : n \in 0..MaxLen}]
    \cup [T : {"Object"}, x : {<<>>}]

NoArg == [ty |-> "none", v |-> 0]

\* ghost: the last operation, its destination d and source s, the source
\* (or the constructed input) as it was before the operation, the foreign
\* value handed in, and the discriminator of the destination before
NoLast == [op |-> "none", d |-> "a", s |-> "a", pre |-> NewImpl,
           arg |-> NoArg, old |-> "Undefined"]

NoRet == [st |-> "none", T |-> "Undefined", p |-> NoPayload]

-----------------------------------------------------------------------------
(* Owned strategy (Dynamic), current revision: the operations *)

\* no Value of the Shared strategy exists, no scenario has begun
NoShared ==
    /\ heap = <<>>
    /\ ptr = [s \in Slots |-> 0]
    /\ pc = <<>>

Init ==
    /\ NoShared
    /\ vals = [s \in Slots |-> NewImpl]
    /\ scope = [s \in Slots |-> s = "a"]
    /\ last = NoLast
    /\ ret = NoRet
    /\ fault = "none"

\* BasicDynamic(): a Value comes into scope
DefaultConstruct(s) ==
    /\ UNCHANGED mvars
    /\ fault = "none" /\ ~scope[s]
    /\ vals' = [vals EXCEPT ![s] = NewImpl]
    /\ scope' = [scope EXCEPT ![s] = TRUE]
    /\ last' = [NoLast EXCEPT !.op = "DefaultConstruct", !.d = s]
    /\ ret' = NoRet
    /\ UNCHANGED fault

\* ~BasicDynamic(): ~Impl() { DestroyIfNeeded(); }
Destroy(s) ==
    /\ UNCHANGED mvars
    /\ fault = "none" /\ scope[s]
    /\ vals' = [vals EXCEPT ![s] = DestroyIfNeeded(vals[s])]
    /\ scope' = [scope EXCEPT ![s] = FALSE]
    /\ last' = [NoLast EXCEPT !.op = "Destroy", !.d = s]
    /\ ret' = NoRet
    /\ UNCHANGED fault

\* v.Emplace<Type>(args...)
DoEmplace(s, in) ==
    /\ UNCHANGED mvars
    /\ fault = "none" /\ scope[s]
    /\ vals' = [vals EXCEPT ![s] = Emplace(vals[s], in.T, in.x)]
    /\ last' = [NoLast EXCEPT !.op = "Emplace", !.d = s,
                              !.pre = EmplaceRaw(NewImpl, in.T, in.x)]
    /\ ret' = NoRet
    /\ UNCHANGED <<scope, fault>>

\* BasicDynamic::From<Type>(args...): a Value comes into scope holding Type;
\* the return of the local is elided or is a move construction
From(s, in, elide) ==
    /\ UNCHANGED mvars
    /\ fault = "none" /\ ~scope[s]
    /\ LET dynamic == Emplace(NewImpl, in.T, in.x)
       IN  /\ vals' = [vals EXCEPT ![s] =
                          IF elide THEN dynamic
                          ELSE MoveRaw(NewImpl, dynamic).self]
    /\ scope' = [scope EXCEPT ![s] = TRUE]
    /\ last' = [NoLast EXCEPT !.op = "From", !.d = s,
                              !.pre = EmplaceRaw(NewImpl, in.T, in.x)]
    /\ ret' = NoRet
    /\ UNCHANGED fault

\* the payload Type{std::forward<Type>(value)} constructs from a foreign
\* value; for the inputs of the model (bool, int to std::int64_t, float to
\* double, const char* to std::string, a container moved into its own type)
\* the brace initialization keeps the value
Converted(x) == x.v

\* v = x: template operator=(Type&&), Emplace<BestFitFor<Type>>(value)
Assign(s, x) ==
    /\ UNCHANGED mvars
    /\ fault = "none" /\ scope[s]
    /\ LET T == BestFitFor(TraitsOf(x.ty))
       IN  /\ vals' = [vals EXCEPT ![s] = Emplace(vals[s], T, Converted(x))]
           /\ last' = [NoLast EXCEPT !.op = "Assign", !.d = s, !.arg = x,
                          !.old = vals[s].tag_]
    /\ ret' = NoRet
    /\ UNCHANGED <<scope, fault>>

\* BasicDynamic d = s (implicit copy constructor): Impl(const Impl&)
CopyConstruct(d, s) ==
    /\ UNCHANGED mvars
    /\ fault = "none" /\ ~scope[d] /\ scope[s] /\ d # s
    /\ vals' = [vals EXCEPT ![d] = CopyRaw(NewImpl, vals[s])]
    /\ scope' = [scope EXCEPT ![d] = TRUE]
    /\ last' = [NoLast EXCEPT !.op = "CopyConstruct", !.d = d, !.s = s,
                              !.pre = vals[s]]
    /\ ret' = NoRet
    /\ UNCHANGED fault

\* d = s with a const source: Impl::operator=(const Impl&)
CopyAssign(d, s) ==
    /\ UNCHANGED mvars
    /\ fault = "none" /\ scope[d] /\ scope[s]
    /\ vals' = [vals EXCEPT ![d] = IF d # s THEN Copy(vals[d], vals[s])
                                   ELSE vals[d]]
    /\ last' = [NoLast EXCEPT !.op = "CopyAssign", !.d = d, !.s = s,
                              !.pre = vals[s]]
    /\ ret' = NoRet
    /\ UNCHANGED <<scope, fault>>

\* BasicDynamic d = std::move(s): Impl(Impl&&)
MoveConstruct(d, s) ==
    /\ UNCHANGED mvars
    /\ fault = "none" /\ ~scope[d] /\ scope[s] /\ d # s
    /\ LET m == MoveRaw(NewImpl, vals[s])
       IN  vals' = [vals EXCEPT ![d] = m.self, ![s] = m.that]
    /\ scope' = [scope EXCEPT ![d] = TRUE]
    /\ last' = [NoLast EXCEPT !.op = "MoveConstruct", !.d = d, !.s = s,
                              !.pre = vals[s]]
    /\ ret' = NoRet
    /\ UNCHANGED fault

\* d = std::move(s): Impl::operator=(Impl&&)
MoveAssign(d, s) ==
    /\ UNCHANGED mvars
    /\ fault = "none" /\ scope[d] /\ scope[s]
    /\ IF d # s
       THEN LET m == Move(vals[d], vals[s])
            IN  /\ vals' = [vals EXCEPT ![d] = m.self, ![s] = m.that]
       ELSE /\ vals' = vals
    /\ last' = [NoLast EXCEPT !.op = "MoveAssign", !.d = d, !.s = s,
                              !.pre = vals[s], !.old = vals[d].tag_]
    /\ ret' = NoRet
    /\ UNCHANGED <<scope, fault>>

-----------------------------------------------------------------------------
(* Key conversions *)

Digits == <<"0", "1", "2", "3", "4", "5", "6", "7", "8", "9">>

\* std::size_t wraps modulo 2^64; the model keeps the wrap-around at 2^30,
\* the widest power of two whose arithmetic the checker's integers hold
SizeModulus == 2 ^ 30

KeyIn ==
    {[kt |-> "int", v |-> 0], [kt |-> "int", v |-> -1]}
    \cup [kt : {"str"}, v : Keys]

\* std::stoul on the texts of the model: a decimal digit parses to its
\* value, anything else throws std::invalid_argument
Stoul(str) ==
    IF \E i \in 1..10 : Digits[i] = str
    THEN (CHOOSE i \in 1..10 : Digits[i] = str) - 1
    ELSE -1

StoulThrows(str) == ~(\E i \in 1..10 : Digits[i] = str)

\* DefaultToIndex::Convert that keeps one bit of an integer key
ToIndexConvert_oneBit(k) ==
    IF k.kt = "int" THEN k.v % 2 ELSE Stoul(k.v)

\* DefaultToIndex::Convert: static_cast<std::size_t>(value), or std::stoul
ToIndexConvert(k) ==
    IF k.kt = "int" THEN k.v % SizeModulus ELSE Stoul(k.v)

\* std::to_string of the integers of the model
ToStdString(n) ==
    IF n \in 0..9 THEN Digits[n + 1] ELSE "-1"

\* DefaultToString::Convert<std::string>
ToStringConvert(k) ==
    IF k.kt = "int" THEN ToStdString(k.v) ELSE k.v

-----------------------------------------------------------------------------
(* Owned strategy: containers, accessors, comparison *)

Failed(st) == [NoRet EXCEPT !.st = st]

Returned(impl) ==
    [st |-> "ok", T |-> impl.tag_, p |-> WithMember(impl.tag_,
                                                  Member(impl, impl.tag_))]

\* v.Push(x): As<Array>().emplace_back(From<BestFitFor<Type>>(x))
DoPush(s, x) ==
    /\ UNCHANGED mvars
    /\ fault = "none" /\ scope[s]
    /\ IF Holds(vals[s], "Array")
       THEN /\ Len(vals[s].array) < MaxLen
            /\ LET T == BestFitFor(TraitsOf(x.ty))
                   tmp == Emplace(NewImpl, T, Converted(x))
                   m == MoveRaw(NewImpl, tmp)
               IN  /\ vals' = [vals EXCEPT ![s].array = Append(@, m.self)]
                   /\ last' = [NoLast EXCEPT !.op = "Push", !.d = s, !.arg = x,
                                  !.pre = EmplaceRaw(NewImpl, T, Converted(x))]
            /\ ret' = NoRet
       ELSE /\ ret' = Failed("InvalidAccess")
            /\ last' = [NoLast EXCEPT !.op = "Push", !.d = s, !.arg = x]
            /\ UNCHANGED vals
    /\ UNCHANGED <<scope, fault>>

\* v.Pop(): back = std::move(array.back()); array.pop_back(); return back.
\* back() of an empty vector is undefined behaviour: the read before the
\* storage ends the process, or a stale Value comes back and the size wraps.
DoPop(s) ==
    /\ UNCHANGED mvars
    /\ fault = "none" /\ scope[s]
    /\ last' = [NoLast EXCEPT !.op = "Pop", !.d = s, !.pre = vals[s]]
    /\ IF ~Holds(vals[s], "Array")
       THEN /\ ret' = Failed("InvalidAccess")
            /\ UNCHANGED <<vals, fault>>
       ELSE IF Len(vals[s].array) = 0
       THEN /\ fault' = "undefined behaviour"
            /\ ret' \in {NoRet, Returned(NewImpl)}
            /\ UNCHANGED vals
       ELSE LET n == Len(vals[s].array)
                m == MoveRaw(NewImpl, vals[s].array[n])
            IN  /\ vals' = [vals EXCEPT ![s].array = SubSeq(@, 1, n - 1)]
                /\ ret' = Returned(m.self)
                /\ UNCHANGED fault
    /\ UNCHANGED scope

\* v[k] = x that appends x when k is the index one past the end
IndexAssign_grows(s, k, x) ==
    /\ UNCHANGED mvars
    /\ fault = "none" /\ scope[s]
    /\ last' = [NoLast EXCEPT !.op = "IndexAssign", !.d = s,
                   !.pre = EmplaceRaw(NewImpl, BestFitFor(TraitsOf(x.ty)),
                                      Converted(x))]
    /\ LET T == BestFitFor(TraitsOf(x.ty))
       IN
       IF Holds(vals[s], "Array")
       THEN IF k.kt = "str" /\ StoulThrows(k.v)
            THEN                  /\ fault' = "terminate"
                 /\ ret' = NoRet
                 /\ UNCHANGED vals
            ELSE IF ToIndexConvert(k) = Len(vals[s].array)
            THEN /\ vals' = [vals EXCEPT ![s].array =
                                Append(@, Emplace(NewImpl, T, Converted(x)))]
                 /\ ret' = NoRet
                 /\ UNCHANGED fault
            ELSE IF ToIndexConvert(k) > Len(vals[s].array)
            THEN /\ ret' = Failed("out_of_range")
                 /\ UNCHANGED <<vals, fault>>
            ELSE LET i == ToIndexConvert(k) + 1
                 IN  /\ vals' = [vals EXCEPT ![s].array[i] =
                                    Emplace(@, T, Converted(x))]
                     /\ ret' = NoRet
                     /\ UNCHANGED fault
       ELSE IF Holds(vals[s], "Object")
       THEN LET key == ToStringConvert(k)
                elem == IF key \in DOMAIN vals[s].object
                        THEN vals[s].object[key] ELSE NewImpl
            IN  /\ \/ key \in DOMAIN vals[s].object
                   \/ Cardinality(DOMAIN vals[s].object) < MaxKeys
                /\ vals' = [vals EXCEPT ![s].object =
                               [kk \in DOMAIN @ \cup {key} |->
                                   IF kk = key
                                   THEN Emplace(elem, T, Converted(x))
                                   ELSE @[kk]]]
                /\ ret' = NoRet
                /\ UNCHANGED fault
       ELSE /\ ret' = Failed("InvalidAccess")
            /\ UNCHANGED <<vals, fault>>
    /\ UNCHANGED scope

\* v[k] = x: operator[](const Key&) dispatches on Array / Object, then the
\* generic assignment on the element it returns
IndexAssign(s, k, x) ==
    /\ UNCHANGED mvars
    /\ fault = "none" /\ scope[s]
    /\ last' = [NoLast EXCEPT !.op = "IndexAssign", !.d = s,
                   !.pre = EmplaceRaw(NewImpl, BestFitFor(TraitsOf(x.ty)),
                                      Converted(x))]
    /\ LET T == BestFitFor(TraitsOf(x.ty))
       IN
       IF Holds(vals[s], "Array")
       THEN IF k.kt = "str" /\ StoulThrows(k.v)
            THEN \* std::invalid_argument leaves the noexcept Convert
                 /\ fault' = "terminate"
                 /\ ret' = NoRet
                 /\ UNCHANGED vals
            ELSE IF ToIndexConvert(k) >= Len(vals[s].array)
            THEN /\ ret' = Failed("out_of_range")
                 /\ UNCHANGED <<vals, fault>>
            ELSE LET i == ToIndexConvert(k) + 1
                 IN  /\ vals' = [vals EXCEPT ![s].array[i] =
                                    Emplace(@, T, Converted(x))]
                     /\ ret' = NoRet
                     /\ UNCHANGED fault
       ELSE IF Holds(vals[s], "Object")
       THEN LET key == ToStringConvert(k)
                elem == IF key \in DOMAIN vals[s].object
                        THEN vals[s].object[key] ELSE NewImpl
            IN  /\ \/ key \in DOMAIN vals[s].object
                   \/ Cardinality(DOMAIN vals[s].object) < MaxKeys
                /\ vals' = [vals EXCEPT ![s].object =
                               [kk \in DOMAIN @ \cup {key} |->
                                   IF kk = key
                                   THEN Emplace(elem, T, Converted(x))
                                   ELSE @[kk]]]
                /\ ret' = NoRet
                /\ UNCHANGED fault
       ELSE /\ ret' = Failed("InvalidAccess")
            /\ UNCHANGED <<vals, fault>>
    /\ UNCHANGED scope

\* the Alternatives whose accessor returns a reference into the payload
ByReference == {"String", "Blob", "Array", "Object"}

\* v.Emplace<X>(v.GetX()), and v = v.GetX(): the argument refers to the
\* payload of v.  Emplace runs DestroyIfNeeded() first, so EmplaceRaw builds
\* the new payload from a destroyed object, which is undefined behaviour:
\* the bytes may still read as before, read as an emptied object, or the
\* read ends the process.
EmplaceOwn(s, X) ==
    /\ UNCHANGED mvars
    /\ fault = "none" /\ scope[s]
    /\ X \in ByReference /\ Holds(vals[s], X)
    /\ last' = [NoLast EXCEPT !.op = "EmplaceOwn", !.d = s, !.pre = vals[s]]
    /\ ret' = NoRet
    /\ \/ /\ \E x \in {Member(vals[s], X),
                       MovedFromMember(X, Member(vals[s], X))} :
                vals' = [vals EXCEPT ![s] =
                            EmplaceRaw(DestroyIfNeeded(vals[s]), X, x)]
          /\ UNCHANGED fault
       \/ /\ fault' = "undefined behaviour"
          /\ UNCHANGED vals
    /\ UNCHANGED scope

\* v = element, the element one of v's own: Impl::operator=(const Impl&)
\* sees this != &that and runs Copy(that), whose DestroyIfNeeded() destroys
\* the container and the element in it before CopyRaw(that) reads the
\* element: undefined behaviour, as above
AssignOwnElement(s, i) ==
    /\ UNCHANGED mvars
    /\ fault = "none" /\ scope[s]
    /\ Holds(vals[s], "Array") /\ i \in 1..Len(vals[s].array)
    /\ last' = [NoLast EXCEPT !.op = "AssignOwnElement", !.d = s,
                              !.pre = vals[s].array[i]]
    /\ ret' = NoRet
    /\ \/ /\ \E that \in {vals[s].array[i], NewImpl} :
                vals' = [vals EXCEPT ![s] =
                            CopyRaw(DestroyIfNeeded(vals[s]), that)]
          /\ UNCHANGED fault
       \/ /\ fault' = "undefined behaviour"
          /\ UNCHANGED vals
    /\ UNCHANGED scope

\* an accessor that reads an Integer as a Number instead of failing
GetX_coerces(impl, X) ==
    IF Holds(impl, X)
    THEN [st |-> "ok", T |-> X, p |-> WithMember(X, Member(impl, X))]
    ELSE IF X = "Number" /\ Holds(impl, "Integer")
    THEN [st |-> "ok", T |-> X, p |-> WithMember(X, impl.integer)]
    ELSE [st |-> "InvalidAccess", T |-> X, p |-> NoPayload]

\* the typed accessors Impl::GetBoolean .. GetNull and As<CastType>():
\* if (Holds<X>()) return payload_.x; else InvalidAccess();
GetX(impl, X) ==
    IF Holds(impl, X)
    THEN [st |-> "ok", T |-> X, p |-> WithMember(X, Member(impl, X))]
    ELSE [st |-> "InvalidAccess", T |-> X, p |-> NoPayload]

Accessors ==
    {"Null", "Boolean", "Integer", "Number", "String", "Blob", "Array",
     "Object"}

\* v.GetX() / v.As<X>()
Get(s, X) ==
    /\ UNCHANGED mvars
    /\ fault = "none" /\ scope[s]
    /\ ret' = GetX(vals[s], X)
    /\ last' = [NoLast EXCEPT !.op = "Get", !.d = s, !.pre = vals[s]]
    /\ UNCHANGED <<vals, scope, fault>>

\* v.IsX()
Query(s, X) ==
    /\ UNCHANGED mvars
    /\ fault = "none" /\ scope[s]
    /\ ret' = [NoRet EXCEPT !.st = IsX(vals[s], X), !.T = X]
    /\ last' = [NoLast EXCEPT !.op = "Query", !.d = s]
    /\ UNCHANGED <<vals, scope, fault>>

\* The Value a is the one the program works on; b is a second Value that
\* a is copied and moved into and out of.
Next ==
    \/ \E s \in Slots : DefaultConstruct(s)
    \/ \E s \in Slots : Destroy(s)
    \/ \E in \in EmplaceIn : DoEmplace("a", in)
    \/ \E in \in EmplaceIn, elide \in BOOLEAN : From("a", in, elide)
    \/ \E x \in ForeignIn : Assign("a", x)
    \/ \E d, s \in Slots : CopyConstruct(d, s)
    \/ \E d, s \in Slots : CopyAssign(d, s)
    \/ \E d, s \in Slots : MoveConstruct(d, s)
    \/ \E d, s \in Slots : MoveAssign(d, s)
    \/ \E x \in ElemIn : DoPush("a", x)
    \/ DoPop("a")
    \/ \E k \in KeyIn, x \in ElemIn : IndexAssign("a", k, x)
    \/ \E X \in Accessors : Get("a", X)
    \/ \E X \in Tags : Query("a", X)
    \/ \E X \in ByReference : EmplaceOwn("a", X)
    \/ \E i \in 1..MaxLen : AssignOwnElement("a", i)

Spec == Init /\ [][Next]_vars

-----------------------------------------------------------------------------
(* Owned strategy: Values nested in containers *)

NoAt == [c |-> "none", i |-> 0, key |-> ""]

\* v[k] whose Object branch is the checked lookup: a key that is absent is
\* reported, nothing is inserted
Sub_checked(impl, k) ==
    IF Holds(impl, "Array")
    THEN IF k.kt = "str" /\ StoulThrows(k.v)
         THEN [st |-> "terminate", self |-> impl, at |-> NoAt]
         ELSE IF ToIndexConvert(k) >= Len(impl.array)
         THEN [st |-> "out_of_range", self |-> impl, at |-> NoAt]
         ELSE [st |-> "ok", self |-> impl,
               at |-> [NoAt EXCEPT !.c = "array", !.i = ToIndexConvert(k) + 1]]
    ELSE IF Holds(impl, "Object")
    THEN LET key == ToStringConvert(k)
         IN  IF key \in DOMAIN impl.object
             THEN [st |-> "ok", self |-> impl,
                   at |-> [NoAt EXCEPT !.c = "object", !.key = key]]
             ELSE [st |-> "out_of_range", self |-> impl, at |-> NoAt]
    ELSE [st |-> "InvalidAccess", self |-> impl, at |-> NoAt]

\* v[k] on a non-const Value: operator[](const Key&) dispatches on the
\* Alternative held; AtIndex is As<Array>().at(index), AtKey is
\* As<Object>()[key], which inserts a default-constructed Value for a key
\* that is absent.  self is the Value afterwards, at the place of the element.
Sub(impl, k) ==
    IF Holds(impl, "Array")
    THEN IF k.kt = "str" /\ StoulThrows(k.v)
         THEN [st |-> "terminate", self |-> impl, at |-> NoAt]
         ELSE IF ToIndexConvert(k) >= Len(impl.array)
         THEN [st |-> "out_of_range", self |-> impl, at |-> NoAt]
         ELSE [st |-> "ok", self |-> impl,
               at |-> [NoAt EXCEPT !.c = "array", !.i = ToIndexConvert(k) + 1]]
    ELSE IF Holds(impl, "Object")
    THEN LET key == ToStringConvert(k)
         IN  [st |-> "ok",
              self |-> [impl EXCEPT !.object =
                           [kk \in DOMAIN @ \cup {key} |->
                               IF kk \in DOMAIN @ THEN @[kk] ELSE NewImpl]],
              at |-> [NoAt EXCEPT !.c = "object", !.key = key]]
    ELSE [st |-> "InvalidAccess", self |-> impl, at |-> NoAt]

\* v[k] does not grow an Object beyond the bound of the model
SubWithinBound(impl, k) ==
    Holds(impl, "Object") =>
        \/ ToStringConvert(k) \in DOMAIN impl.object
        \/ Cardinality(DOMAIN impl.object) < MaxKeys

\* the element a reference returned by v[k] denotes, and the container with
\* that element replaced
ElemOf(impl, at) ==
    IF at.c = "array" THEN impl.array[at.i] ELSE impl.object[at.key]

Put(impl, at, e) ==
    IF at.c = "array" THEN [impl EXCEPT !.array[at.i] = e]
    ELSE [impl EXCEPT !.object[at.key] = e]

KeyInDeep ==
    {k \in KeyIn : (k.kt = "int" /\ k.v = 0) \/ (k.kt = "str" /\ k.v = "k")}

EmplaceInDeep ==
    {[T |-> "Array", x |-> <<NewImpl>>], [T |-> "Object", x |-> <<>>]}

\* v[k].Push(x)
IndexPush(s, k, x) ==
    /\ UNCHANGED mvars
    /\ fault = "none" /\ scope[s]
    /\ SubWithinBound(vals[s], k)
    /\ last' = [NoLast EXCEPT !.op = "IndexPush", !.d = s]
    /\ LET r == Sub(vals[s], k)
       IN  IF r.st = "terminate"
           THEN fault' = "terminate" /\ ret' = NoRet /\ UNCHANGED vals
           ELSE IF r.st # "ok"
           THEN ret' = Failed(r.st) /\ UNCHANGED <<vals, fault>>
           ELSE LET e == ElemOf(r.self, r.at)
                    T == BestFitFor(TraitsOf(x.ty))
                    tmp == Emplace(NewImpl, T, Converted(x))
                IN  IF Holds(e, "Array")
                    THEN /\ Len(e.array) < MaxInner
                         /\ vals' = [vals EXCEPT ![s] =
                               Put(r.self, r.at,
                                   [e EXCEPT !.array =
                                       Append(@, MoveRaw(NewImpl, tmp).self)])]
                         /\ ret' = NoRet
                         /\ UNCHANGED fault
                    ELSE /\ vals' = [vals EXCEPT ![s] = r.self]
                         /\ ret' = Failed("InvalidAccess")
                         /\ UNCHANGED fault
    /\ UNCHANGED scope

\* v[k1][k2] = x on a Value whose copies kept the storage of its elements:
\* the write lands in every Value that was equal to it
NestedAssign_through(s, k1, k2, x) ==
    /\ UNCHANGED mvars
    /\ fault = "none" /\ scope[s]
    /\ SubWithinBound(vals[s], k1)
    /\ last' = [NoLast EXCEPT !.op = "NestedAssign", !.d = s]
    /\ LET r1 == Sub(vals[s], k1)
       IN  IF r1.st = "terminate"
           THEN fault' = "terminate" /\ ret' = NoRet /\ UNCHANGED vals
           ELSE IF r1.st # "ok"
           THEN ret' = Failed(r1.st) /\ UNCHANGED <<vals, fault>>
           ELSE LET e1 == ElemOf(r1.self, r1.at)
                    r2 == Sub(e1, k2)
                    T == BestFitFor(TraitsOf(x.ty))
                IN  /\ SubWithinBound(e1, k2)
                    /\ IF r2.st = "terminate"
                       THEN /\ fault' = "terminate" /\ ret' = NoRet
                            /\ vals' = [vals EXCEPT ![s] = r1.self]
                       ELSE IF r2.st # "ok"
                       THEN /\ ret' = Failed(r2.st)
                            /\ vals' = [vals EXCEPT ![s] = r1.self]
                            /\ UNCHANGED fault
                       ELSE /\ vals' = [t \in Slots |->
                                  IF vals[t] = vals[s]
                                  THEN Put(r1.self, r1.at,
                                           Put(r2.self, r2.at,
                                               Emplace(ElemOf(r2.self, r2.at),
                                                       T, Converted(x))))
                                  ELSE vals[t]]
                            /\ ret' = NoRet
                            /\ UNCHANGED fault
    /\ UNCHANGED scope

\* v[k1][k2] = x
NestedAssign(s, k1, k2, x) ==
    /\ UNCHANGED mvars
    /\ fault = "none" /\ scope[s]
    /\ SubWithinBound(vals[s], k1)
    /\ last' = [NoLast EXCEPT !.op = "NestedAssign", !.d = s]
    /\ LET r1 == Sub(vals[s], k1)
       IN  IF r1.st = "terminate"
           THEN fault' = "terminate" /\ ret' = NoRet /\ UNCHANGED vals
           ELSE IF r1.st # "ok"
           THEN ret' = Failed(r1.st) /\ UNCHANGED <<vals, fault>>
           ELSE LET e1 == ElemOf(r1.self, r1.at)
                    r2 == Sub(e1, k2)
                    T == BestFitFor(TraitsOf(x.ty))
                IN  /\ SubWithinBound(e1, k2)
                    /\ IF r2.st = "terminate"
                       THEN /\ fault' = "terminate" /\ ret' = NoRet
                            /\ vals' = [vals EXCEPT ![s] = r1.self]
                       ELSE IF r2.st # "ok"
                       THEN /\ ret' = Failed(r2.st)
                            /\ vals' = [vals EXCEPT ![s] = r1.self]
                            /\ UNCHANGED fault
                       ELSE /\ vals' = [vals EXCEPT ![s] =
                                  Put(r1.self, r1.at,
                                      Put(r2.self, r2.at,
                                          Emplace(ElemOf(r2.self, r2.at), T,
                                                  Converted(x))))]
                            /\ ret' = NoRet
                            /\ UNCHANGED fault
    /\ UNCHANGED scope

\* Two Values, each mutated in place at the top and below, and copied into
\* one another.
NextNested ==
    \/ \E s \in Slots : Destroy(s)
    \/ \E s \in Slots, in \in EmplaceInDeep : DoEmplace(s, in)
    \/ \E d, s \in Slots : CopyConstruct(d, s)
    \/ \E d, s \in Slots : CopyAssign(d, s)
    \/ \E s \in Slots, k \in KeyInDeep, x \in ElemIn : IndexAssign(s, k, x)
    \/ \E s \in Slots, k \in KeyInDeep, x \in ElemIn : IndexPush(s, k, x)
    \/ \E s \in Slots, k1, k2 \in KeyInDeep, x \in ElemIn :
          NestedAssign(s, k1, k2, x)

SpecNested == Init /\ [][NextNested]_vars

-----------------------------------------------------------------------------
(* struct Impl, revision src/include/dynamicxx/dynamicxx.h *)

Tags_h == Tags \ {"Blob"}

\* the destructors the switch of DestroyIfNeeded runs: case Tag::Null has no
\* break and falls into case Tag::Integer
DestructorsRun_h(tag) ==
    IF tag = "Null" THEN <<"Null", "Integer">> ELSE <<tag>>

\* the discriminators the switch of DestroyIfNeeded has a case for
DestroyCases_h ==
    {"Null", "Integer", "Number", "String", "Array", "Object", "Undefined"}

RECURSIVE InvalidTag_h(_)
\* destroying impl (its elements included) reaches the default branch,
\* ThrowInvalidTerminatingTag(), inside the noexcept DestroyIfNeeded
InvalidTag_h(impl) ==
    \/ impl.tag_ \notin DestroyCases_h
    \/ /\ impl.tag_ = "Array"
       /\ \E i \in 1..Len(impl.array) : InvalidTag_h(impl.array[i])
    \/ /\ impl.tag_ = "Object"
       /\ \E k \in DOMAIN impl.object : InvalidTag_h(impl.object[k])

\* DestroyIfNeeded; when the default branch is reached the process ends
\* and the Impl stays as it is
DestroyIfNeeded_h(impl) ==
    LET ran == DestructorsRun_h(impl.tag_)
        hit == \E i \in 1..Len(ran) : ran[i] = impl.live
        stray == \E i \in 1..Len(ran) :
                    ran[i] \notin UnitTags /\ ran[i] # impl.live
        audited == IF stray THEN "wrong destructor" ELSE impl.audit
    IN  IF InvalidTag_h(impl)
        THEN impl
        ELSE IF hit \/ impl.live = "none"
        THEN [tag_ |-> "Undefined", live |-> "none", audit |-> audited]
             @@ NoPayload
        ELSE [impl EXCEPT !.tag_ = "Undefined", !.audit = audited]

\* what reading payload_.boolean / payload_.integer gives: the member's value
\* when it is the live one, else whatever bytes the union holds (junk)
ReadBoolean_h(that, junk) ==
    IF that.live = "Boolean" THEN that.boolean ELSE junk.boolean

ReadInteger_h(that, junk) ==
    IF that.live = "Integer" THEN that.integer ELSE junk.integer

JunkIn == [boolean : BOOLEAN, integer : {0, 42}]

RECURSIVE CopyRaw_h(_, _, _)
CopyMember_h(T, x, junk) ==
    CASE T = "Array"  -> [i \in 1..Len(x) |-> CopyRaw_h(NewImpl, x[i], junk)]
      [] T = "Object" -> [k \in DOMAIN x |-> CopyRaw_h(NewImpl, x[k], junk)]
      [] OTHER        -> x

\* CopyRaw: case Tag::Null and case Tag::Boolean share EmplaceRaw<Boolean>,
\* which has no break and falls into case Tag::Integer
CopyRaw_h(self, that, junk) ==
    LET tagged == [self EXCEPT !.tag_ = that.tag_]
    IN  CASE that.tag_ \in {"Null", "Boolean"} ->
                EmplaceRaw(EmplaceRaw(tagged, "Boolean",
                                      ReadBoolean_h(that, junk)),
                           "Integer", ReadInteger_h(that, junk))
          [] that.tag_ = "Undefined" -> tagged
          [] OTHER ->
                EmplaceRaw(tagged, that.tag_,
                           CopyMember_h(that.tag_, Member(that, that.tag_),
                                        junk))

\* MoveRaw(Impl& that): the pair (this, that) afterwards
MoveRaw_h(self, that) ==
    [self |-> IF that.tag_ \in UnitTags
              THEN [self EXCEPT !.tag_ = that.tag_]
              ELSE EmplaceRaw([self EXCEPT !.tag_ = that.tag_], that.tag_,
                              Member(that, that.tag_)),
     that |-> DestroyIfNeeded_h(MovedFrom(that))]

Move_h(self, that) == MoveRaw_h(DestroyIfNeeded_h(self), that)

Copy_h(self, that, junk) == CopyRaw_h(DestroyIfNeeded_h(self), that, junk)

Emplace_h(self, T, x) == EmplaceRaw(DestroyIfNeeded_h(self), T, x)

\* BestFitFor<Type>: the std::conditional chain of this revision (no Blob)
BestFitFor_h(t) ==
    IF t.exact \in Tags_h THEN t.exact
    ELSE IF t.isBool THEN "Boolean"
    ELSE IF t.isIntegral THEN "Integer"
    ELSE IF t.isFloat THEN "Number"
    ELSE IF t.toString THEN "String"
    ELSE IF t.toArray THEN "Array"
    ELSE IF t.toObject THEN "Object"
    ELSE "void"

-----------------------------------------------------------------------------
(* Owned strategy, revision src/include/dynamicxx/dynamicxx.h: operations *)

EmplaceIn_h == {in \in EmplaceIn : in.T \in Tags_h}

ForeignIn_h == {x \in ForeignIn : x.ty # "Blob"}

ElemIn_h == {[ty |-> "bool", v |-> TRUE], [ty |-> "Array", v |-> <<>>]}

\* ~BasicDynamic(): ~Impl() { DestroyIfNeeded(); }
Destroy_h(s) ==
    /\ UNCHANGED mvars
    /\ fault = "none" /\ scope[s]
    /\ vals' = [vals EXCEPT ![s] = DestroyIfNeeded_h(vals[s])]
    /\ IF InvalidTag_h(vals[s])
       THEN fault' = "invalid tag" /\ UNCHANGED scope
       ELSE scope' = [scope EXCEPT ![s] = FALSE] /\ UNCHANGED fault
    /\ last' = [NoLast EXCEPT !.op = "Destroy", !.d = s]
    /\ ret' = NoRet

\* v.Emplace<Type>(args...)
DoEmplace_h(s, in) ==
    /\ UNCHANGED mvars
    /\ fault = "none" /\ scope[s]
    /\ IF InvalidTag_h(vals[s])
       THEN fault' = "invalid tag" /\ UNCHANGED vals
       ELSE /\ vals' = [vals EXCEPT ![s] = Emplace_h(vals[s], in.T, in.x)]
            /\ UNCHANGED fault
    /\ last' = [NoLast EXCEPT !.op = "Emplace", !.d = s]
    /\ ret' = NoRet
    /\ UNCHANGED scope

\* v = x: template operator=(Type&&), Emplace<BestFitFor<Type>>(value)
Assign_h(s, x) ==
    /\ UNCHANGED mvars
    /\ fault = "none" /\ scope[s]
    /\ IF InvalidTag_h(vals[s])
       THEN fault' = "invalid tag" /\ UNCHANGED vals
       ELSE /\ vals' = [vals EXCEPT ![s] =
                          Emplace_h(vals[s], BestFitFor_h(TraitsOf(x.ty)),
                                    Converted(x))]
            /\ UNCHANGED fault
    /\ last' = [NoLast EXCEPT !.op = "Assign", !.d = s]
    /\ ret' = NoRet
    /\ UNCHANGED scope

\* BasicDynamic d = s (implicit copy constructor): Impl(const Impl&)
CopyConstruct_h(d, s, junk) ==
    /\ UNCHANGED mvars
    /\ fault = "none" /\ ~scope[d] /\ scope[s] /\ d # s
    /\ vals' = [vals EXCEPT ![d] = CopyRaw_h(NewImpl, vals[s], junk)]
    /\ scope' = [scope EXCEPT ![d] = TRUE]
    /\ last' = [NoLast EXCEPT !.op = "CopyConstruct", !.d = d, !.s = s,
                              !.pre = vals[s]]
    /\ ret' = NoRet
    /\ UNCHANGED fault

\* d = s with a const source: Impl::operator=(const Impl&)
CopyAssign_h(d, s, junk) ==
    /\ UNCHANGED mvars
    /\ fault = "none" /\ scope[d] /\ scope[s] /\ d # s
    /\ IF InvalidTag_h(vals[d])
       THEN fault' = "invalid tag" /\ UNCHANGED vals
       ELSE /\ vals' = [vals EXCEPT ![d] = Copy_h(vals[d], vals[s], junk)]
            /\ UNCHANGED fault
    /\ last' = [NoLast EXCEPT !.op = "CopyAssign", !.d = d, !.s = s,
                              !.pre = vals[s]]
    /\ ret' = NoRet
    /\ UNCHANGED scope

\* d = std::move(s): Impl::operator=(Impl&&)
MoveAssign_h(d, s) ==
    /\ UNCHANGED mvars
    /\ fault = "none" /\ scope[d] /\ scope[s] /\ d # s
    /\ IF InvalidTag_h(vals[d])
       THEN fault' = "invalid tag" /\ UNCHANGED vals
       ELSE LET m == Move_h(vals[d], vals[s])
            IN  /\ vals' = [vals EXCEPT ![d] = m.self, ![s] = m.that]
                /\ fault' = IF InvalidTag_h(MovedFrom(vals[s]))
                            THEN "invalid tag" ELSE fault
    /\ last' = [NoLast EXCEPT !.op = "MoveAssign", !.d = d, !.s = s,
                              !.pre = vals[s]]
    /\ ret' = NoRet
    /\ UNCHANGED scope

\* v.Push(x): As<Array>().emplace_back(From<BestFitFor<Type>>(x)); the
\* temporary is moved into the new element and then destroyed
DoPush_h(s, x) ==
    /\ UNCHANGED mvars
    /\ fault = "none" /\ scope[s]
    /\ last' = [NoLast EXCEPT !.op = "Push", !.d = s, !.arg = x]
    /\ IF Holds(vals[s], "Array")
       THEN /\ Len(vals[s].array) < MaxLen
            /\ LET tmp == Emplace_h(NewImpl, BestFitFor_h(TraitsOf(x.ty)),
                                    Converted(x))
                   m == MoveRaw_h(NewImpl, tmp)
               IN  /\ vals' = [vals EXCEPT ![s].array = Append(@, m.self)]
                   /\ fault' = IF InvalidTag_h(MovedFrom(tmp))
                               THEN "invalid tag" ELSE fault
            /\ ret' = NoRet
       ELSE /\ ret' = Failed("InvalidAccess")
            /\ UNCHANGED <<vals, fault>>
    /\ UNCHANGED scope

\* v.Pop(): back = std::move(array.back()); array.pop_back(); return back.
\* The move constructor ends with that.DestroyIfNeeded() on the element.
DoPop_h(s) ==
    /\ UNCHANGED mvars
    /\ fault = "none" /\ scope[s]
    /\ last' = [NoLast EXCEPT !.op = "Pop", !.d = s, !.pre = vals[s]]
    /\ IF ~Holds(vals[s], "Array")
       THEN /\ ret' = Failed("InvalidAccess")
            /\ UNCHANGED <<vals, fault>>
       ELSE IF Len(vals[s].array) = 0
       THEN /\ fault' = "undefined behaviour"
            /\ ret' \in {NoRet, Returned(NewImpl)}
            /\ UNCHANGED vals
       ELSE LET n == Len(vals[s].array)
                m == MoveRaw_h(NewImpl, vals[s].array[n])
            IN  IF InvalidTag_h(MovedFrom(vals[s].array[n]))
                THEN /\ fault' = "invalid tag"
                     /\ ret' = NoRet
                     /\ UNCHANGED vals
                ELSE /\ vals' = [vals EXCEPT ![s].array = SubSeq(@, 1, n - 1)]
                     /\ ret' = Returned(m.self)
                     /\ UNCHANGED fault
    /\ UNCHANGED scope

\* v[k] = x: an integer key selects operator[](integer), AtIndex, a text
\* key selects the template operator[], As<Object>()[key]; then the generic
\* assignment on the element, Emplace<BestFitFor<Type>>(value)
IndexAssign_h(s, k, x) ==
    /\ UNCHANGED mvars
    /\ fault = "none" /\ scope[s]
    /\ last' = [NoLast EXCEPT !.op = "IndexAssign", !.d = s, !.arg = x]
    /\ LET T == BestFitFor_h(TraitsOf(x.ty))
       IN
       IF k.kt = "int" /\ Holds(vals[s], "Array")
       THEN IF ToIndexConvert(k) >= Len(vals[s].array)
            THEN /\ ret' = Failed("out_of_range")
                 /\ UNCHANGED <<vals, fault>>
            ELSE LET i == ToIndexConvert(k) + 1
                 IN  IF InvalidTag_h(vals[s].array[i])
                     THEN /\ fault' = "invalid tag"
                          /\ ret' = NoRet
                          /\ UNCHANGED vals
                     ELSE /\ vals' = [vals EXCEPT ![s].array[i] =
                                         Emplace_h(@, T, Converted(x))]
                          /\ ret' = NoRet
                          /\ UNCHANGED fault
       ELSE IF k.kt = "str" /\ Holds(vals[s], "Object")
       THEN LET elem == IF k.v \in DOMAIN vals[s].object
                        THEN vals[s].object[k.v] ELSE NewImpl
            IN  /\ \/ k.v \in DOMAIN vals[s].object
                   \/ Cardinality(DOMAIN vals[s].object) < MaxKeys
                /\ IF InvalidTag_h(elem)
                   THEN /\ fault' = "invalid tag"
                        /\ ret' = NoRet
                        /\ UNCHANGED vals
                   ELSE /\ vals' = [vals EXCEPT ![s].object =
                                      [kk \in DOMAIN @ \cup {k.v} |->
                                          IF kk = k.v
                                          THEN Emplace_h(elem, T, Converted(x))
                                          ELSE @[kk]]]
                        /\ ret' = NoRet
                        /\ UNCHANGED fault
       ELSE /\ ret' = Failed("InvalidAccess")
            /\ UNCHANGED <<vals, fault>>
    /\ UNCHANGED scope

NextH ==
    \/ \E s \in Slots : DefaultConstruct(s)
    \/ \E s \in Slots : Destroy_h(s)
    \/ \E in \in EmplaceIn_h : DoEmplace_h("a", in)
    \/ \E x \in ForeignIn_h : Assign_h("a", x)
    \/ \E d, s \in Slots, junk \in JunkIn : CopyConstruct_h(d, s, junk)
    \/ \E d, s \in Slots, junk \in JunkIn : CopyAssign_h(d, s, junk)
    \/ \E d, s \in Slots : MoveAssign_h(d, s)
    \/ \E x \in ElemIn_h : DoPush_h("a", x)
    \/ DoPop_h("a")
    \/ \E k \in KeyIn, x \in ElemIn_h : IndexAssign_h("a", k, x)

SpecH == Init /\ [][NextH]_vars

-----------------------------------------------------------------------------
(* Shared strategy (DynamicManaged): impl_ is a std::shared_ptr<Impl> *)

\* heap maps the handles of the Impl objects that are alive to their state;
\* ptr[s] is the handle the shared_ptr of Value s holds, 0 for a null one
Handles == 1..Cardinality(Slots)

NoHandle == 0

\* std::make_shared<Impl>(): the handle of the new object
Alloc(hp) ==
    CHOOSE h \in Handles :
        h \notin DOMAIN hp /\ \A g \in 1..(h - 1) : g \in DOMAIN hp

\* the objects some shared_ptr still owns (the others were deleted when the
\* last shared_ptr to them went away)
Owned(hp, p) ==
    [h \in {g \in DOMAIN hp : \E s \in Slots : p[s] = g} |-> hp[h]]

InitShared ==
    /\ NoShared
    /\ vals = [s \in Slots |-> NewImpl]
    /\ scope = [s \in Slots |-> FALSE]
    /\ last = NoLast
    /\ ret = NoRet
    /\ fault = "none"

\* PointerOf(impl_) is impl_.get(): the Impl a Value refers to, if any
RefersTo(s) == IF ptr[s] \in DOMAIN heap THEN heap[ptr[s]] ELSE NewImpl

\* DynamicManaged v: impl_ = DefaultOf<shared_ptr<Impl>>() = make_shared
DefaultConstruct_shared(s) ==
    /\ fault = "none" /\ ~scope[s]
    /\ LET h == Alloc(heap)
       IN  /\ heap' = Owned(heap @@ (h :> NewImpl), [ptr EXCEPT ![s] = h])
           /\ ptr' = [ptr EXCEPT ![s] = h]
    /\ scope' = [scope EXCEPT ![s] = TRUE]
    /\ last' = [NoLast EXCEPT !.op = "DefaultConstruct", !.d = s]
    /\ ret' = NoRet
    /\ UNCHANGED <<pc, vals, fault>>

\* DynamicManaged::From<Type>(args...)
From_shared(s, in) ==
    /\ fault = "none" /\ ~scope[s]
    /\ LET h == Alloc(heap)
           dynamic == Emplace(NewImpl, in.T, in.x)
       IN  /\ heap' = Owned(heap @@ (h :> dynamic), [ptr EXCEPT ![s] = h])
           /\ ptr' = [ptr EXCEPT ![s] = h]
    /\ scope' = [scope EXCEPT ![s] = TRUE]
    /\ last' = [NoLast EXCEPT !.op = "From", !.d = s,
                              !.pre = EmplaceRaw(NewImpl, in.T, in.x)]
    /\ ret' = NoRet
    /\ UNCHANGED <<pc, vals, fault>>

\* v.Emplace<Type>(args...): GetImpl() dereferences impl_.get(), which is
\* undefined behaviour when impl_ is null
DoEmplace_shared(s, in) ==
    /\ fault = "none" /\ scope[s]
    /\ IF ptr[s] = NoHandle
       THEN /\ fault' = "undefined behaviour"
            /\ UNCHANGED heap
       ELSE /\ heap' = [heap EXCEPT ![ptr[s]] = Emplace(@, in.T, in.x)]
            /\ UNCHANGED fault
    /\ last' = [NoLast EXCEPT !.op = "Emplace", !.d = s,
                              !.pre = EmplaceRaw(NewImpl, in.T, in.x)]
    /\ ret' = NoRet
    /\ UNCHANGED <<pc, vals, scope, ptr>>

\* DynamicManaged d = s: the implicit copy constructor copies the shared_ptr
CopyConstruct_shared(d, s) ==
    /\ fault = "none" /\ ~scope[d] /\ scope[s] /\ d # s
    /\ ptr' = [ptr EXCEPT ![d] = ptr[s]]
    /\ scope' = [scope EXCEPT ![d] = TRUE]
    /\ last' = [NoLast EXCEPT !.op = "CopyConstruct", !.d = d, !.s = s,
                              !.pre = RefersTo(s)]
    /\ ret' = NoRet
    /\ UNCHANGED <<pc, vals, heap, fault>>

\* d = s with a const source: the implicit copy assignment
CopyAssign_shared(d, s) ==
    /\ fault = "none" /\ scope[d] /\ scope[s]
    /\ ptr' = [ptr EXCEPT ![d] = ptr[s]]
    /\ heap' = Owned(heap, ptr')
    /\ last' = [NoLast EXCEPT !.op = "CopyAssign", !.d = d, !.s = s,
                              !.pre = RefersTo(s)]
    /\ ret' = NoRet
    /\ UNCHANGED <<pc, vals, scope, fault>>

\* DynamicManaged d = std::move(s): shared_ptr(shared_ptr&&) leaves s null
MoveConstruct_shared(d, s) ==
    /\ fault = "none" /\ ~scope[d] /\ scope[s] /\ d # s
    /\ ptr' = [ptr EXCEPT ![d] = ptr[s], ![s] = NoHandle]
    /\ scope' = [scope EXCEPT ![d] = TRUE]
    /\ last' = [NoLast EXCEPT !.op = "MoveConstruct", !.d = d, !.s = s,
                              !.pre = RefersTo(s)]
    /\ ret' = NoRet
    /\ UNCHANGED <<pc, vals, heap, fault>>

\* d = std::move(s): shared_ptr::operator=(shared_ptr&&)
MoveAssign_shared(d, s) ==
    /\ fault = "none" /\ scope[d] /\ scope[s]
    /\ ptr' = IF d # s THEN [ptr EXCEPT ![d] = ptr[s], ![s] = NoHandle]
              ELSE ptr
    /\ heap' = Owned(heap, ptr')
    /\ last' = [NoLast EXCEPT !.op = "MoveAssign", !.d = d, !.s = s,
                              !.pre = RefersTo(s)]
    /\ ret' = NoRet
    /\ UNCHANGED <<pc, vals, scope, fault>>

\* ~DynamicManaged(): the shared_ptr lets go of its Impl
Destroy_shared(s) ==
    /\ fault = "none" /\ scope[s]
    /\ ptr' = [ptr EXCEPT ![s] = NoHandle]
    /\ heap' = Owned(heap, ptr')
    /\ scope' = [scope EXCEPT ![s] = FALSE]
    /\ last' = [NoLast EXCEPT !.op = "Destroy", !.d = s]
    /\ ret' = NoRet
    /\ UNCHANGED <<pc, vals, fault>>

\* v.IsX(): GetImpl().HoldsX() reads tag_ through impl_.get(); through a null
\* impl_ that is undefined behaviour: the read faults or gives any answer
Query_shared(s, X) ==
    /\ fault = "none" /\ scope[s]
    /\ last' = [NoLast EXCEPT !.op = "Query", !.d = s]
    /\ IF ptr[s] # NoHandle \/ IsX(NewImpl, X) = "ill-formed"
       THEN /\ ret' = [NoRet EXCEPT !.st = IsX(RefersTo(s), X), !.T = X]
            /\ UNCHANGED fault
       ELSE \/ /\ fault' = "undefined behaviour"
               /\ ret' = NoRet
            \/ /\ \E b \in BOOLEAN :
                     ret' = [NoRet EXCEPT !.st = Answer(b), !.T = X]
               /\ UNCHANGED fault
    /\ UNCHANGED <<pc, vals, scope, heap, ptr>>

NextShared ==
    \/ \E s \in Slots : DefaultConstruct_shared(s)
    \/ \E s \in Slots, in \in EmplaceIn : From_shared(s, in)
    \/ \E s \in Slots, in \in EmplaceIn : DoEmplace_shared(s, in)
    \/ \E d, s \in Slots : CopyConstruct_shared(d, s)
    \/ \E d, s \in Slots : CopyAssign_shared(d, s)
    \/ \E d, s \in Slots : MoveConstruct_shared(d, s)
    \/ \E d, s \in Slots : MoveAssign_shared(d, s)
    \/ \E s \in Slots : Destroy_shared(s)
    \/ \E s \in Slots, X \in Tags : Query_shared(s, X)

SpecShared == InitShared /\ [][NextShared]_vars

-----------------------------------------------------------------------------
(* Shared strategy with nested Values: Array and Object hold BasicDynamic   *)
(* elements, each of which is itself a std::shared_ptr<Impl>.  In the heap  *)
(* of this section the array and object members hold the handles of their   *)
(* elements; the definitions carry the suffix _managed.                     *)

Handles_managed == 1..MaxHandles

\* std::make_shared<Impl>(...): the handle of the new object
Alloc_managed(hp) ==
    CHOOSE h \in Handles_managed :
        h \notin DOMAIN hp /\ \A g \in 1..(h - 1) : g \in DOMAIN hp

HasRoom(hp, n) == Cardinality(DOMAIN hp) + n <= MaxHandles

\* the shared_ptrs an Impl holds in its live container member
Kids(impl) ==
    IF Holds(impl, "Array") THEN {impl.array[i] : i \in 1..Len(impl.array)}
    ELSE IF Holds(impl, "Object")
    THEN {impl.object[k] : k \in DOMAIN impl.object}
    ELSE {}

RECURSIVE Reach(_, _)
\* the Impl objects kept alive, directly or through elements, by a set of
\* shared_ptrs
Reach(hp, hs) ==
    LET more == hs \cup UNION {Kids(hp[h]) : h \in hs \cap DOMAIN hp}
    IN  IF more = hs THEN hs \cap DOMAIN hp ELSE Reach(hp, more)

RECURSIVE KeySeq(_)
\* the keys of an Object in one fixed order
KeySeq(keys) ==
    IF keys = {} THEN <<>>
    ELSE LET k == CHOOSE kk \in keys : TRUE
         IN  <<k>> \o KeySeq(keys \ {k})

\* the shared_ptrs an Impl holds, in the order of its container
KidSeq(impl) ==
    IF Holds(impl, "Array") THEN impl.array
    ELSE IF Holds(impl, "Object")
    THEN LET ks == KeySeq(DOMAIN impl.object)
         IN  [i \in 1..Len(ks) |-> impl.object[ks[i]]]
    ELSE <<>>

RECURSIVE Walk(_, _, _)
\* the Impl objects met walking down from a sequence of shared_ptrs, each
\* once, after those already met
Walk(hp, hs, met) ==
    IF hs = <<>> THEN met
    ELSE IF Head(hs) \notin DOMAIN hp
            \/ \E i \in 1..Len(met) : met[i] = Head(hs)
    THEN Walk(hp, Tail(hs), met)
    ELSE Walk(hp, KidSeq(hp[Head(hs)]) \o Tail(hs), Append(met, Head(hs)))

\* The program never compares or prints the address of an Impl, so two heaps
\* that differ in the addresses only are one state: Settle deletes what no
\* shared_ptr owns and names the Impl objects in the order in which a walk
\* from a, then from b, meets them.
Settle(hp, p) ==
    LET w == Walk(hp, <<p["a"], p["b"]>>, <<>>)
        name == [h \in {w[i] : i \in 1..Len(w)} |->
                    CHOOSE i \in 1..Len(w) : w[i] = h]
        renamed(impl) ==
            IF Holds(impl, "Array")
            THEN [impl EXCEPT !.array = [i \in 1..Len(@) |-> name[@[i]]]]
            ELSE IF Holds(impl, "Object")
            THEN [impl EXCEPT !.object = [k \in DOMAIN @ |-> name[@[k]]]]
            ELSE impl
    IN  [hp |-> [n \in 1..Len(w) |-> renamed(hp[w[n]])],
         p |-> [s \in Slots |-> IF p[s] = NoHandle THEN NoHandle
                                ELSE name[p[s]]]]

\* the heap and the shared_ptrs of the Values after a step
Becomes(hp, p) ==
    LET n == Settle(hp, p)
    IN  heap' = n.hp /\ ptr' = n.p

RECURSIVE Deref(_, _)
\* what a reader sees through a shared_ptr: the Impl with each element
\* replaced by what is seen through it
Deref(hp, h) ==
    IF h \notin DOMAIN hp THEN NewImpl
    ELSE IF Holds(hp[h], "Array")
    THEN [hp[h] EXCEPT !.array = [i \in 1..Len(@) |-> Deref(hp, @[i])]]
    ELSE IF Holds(hp[h], "Object")
    THEN [hp[h] EXCEPT !.object = [k \in DOMAIN @ |-> Deref(hp, @[k])]]
    ELSE hp[h]

View(s) == Deref(heap, ptr[s])

RECURSIVE CloneImpl(_, _)
RECURSIVE CloneArray(_, _, _)
RECURSIVE CloneObject(_, _, _)
\* BasicDynamic::Clone under the Shared strategy:
\* BasicDynamic{make_shared<Impl>(GetImpl().Clone())}; the heap afterwards and
\* the handle of the new Impl
CloneValue(hp, h) ==
    LET r == CloneImpl(hp, hp[h])
        n == Alloc_managed(r.hp)
    IN  [hp |-> r.hp @@ (n :> r.impl), h |-> n]

\* for (value : payload_.array) array.emplace_back(value.Clone()): the heap
\* and the elements after the first i elements of the source were cloned
CloneArray(hp, src, i) ==
    IF i = 0 THEN [hp |-> hp, elems |-> <<>>]
    ELSE LET done == CloneArray(hp, src, i - 1)
             c == CloneValue(done.hp, src[i])
         IN  [hp |-> c.hp, elems |-> Append(done.elems, c.h)]

\* for (value : payload_.object) object[value.first] = value.second.Clone():
\* object[key] default-constructs an element (make_shared), and the move
\* assignment re-binds it to the clone, which deletes the default Impl
CloneObject(hp, src, keys) ==
    IF keys = {} THEN [hp |-> hp, elems |-> <<>>]
    ELSE LET k == CHOOSE kk \in keys : TRUE
             done == CloneObject(hp, src, keys \ {k})
             c == CloneValue(done.hp, src[k])
         IN  [hp |-> c.hp, elems |-> done.elems @@ (k :> c.h)]

\* Impl::Clone without the two loops: a container is cloned empty
CloneImpl_flat(hp, impl) ==
    [hp |-> hp,
     impl |-> EmplaceRaw(NewImpl, impl.tag_,
                         IF impl.tag_ \in {"Array", "Object"} THEN <<>>
                         ELSE Member(impl, impl.tag_))]

\* Impl::Clone
CloneImpl(hp, impl) ==
    IF Holds(impl, "Array")
    THEN LET r == CloneArray(hp, impl.array, Len(impl.array))
         IN  [hp |-> r.hp, impl |-> EmplaceRaw(NewImpl, "Array", r.elems)]
    ELSE IF Holds(impl, "Object")
    THEN LET r == CloneObject(hp, impl.object, DOMAIN impl.object)
         IN  [hp |-> r.hp, impl |-> EmplaceRaw(NewImpl, "Object", r.elems)]
    ELSE [hp |-> hp,
          impl |-> EmplaceRaw(NewImpl, impl.tag_, Member(impl, impl.tag_))]

\* Emplace<Type>(args...) of the model's inputs under the Shared strategy
EmplaceIn_managed ==
    [T : {"Null", "Undefined"}, x : {"unit"}]
    \cup [T : {"Boolean"}, x : {TRUE}]
    \cup [T : {"Integer"}, x : {1}]
    \cup [T : {"Number"}, x : {NaN}]
    \cup [T : {"String"}, x : StringIn]
    \cup [T : {"Blob"}, x : BlobIn]
    \cup [T : {"Array", "Object"}, x : {<<>>}]

InitManaged ==
    /\ NoShared
    /\ vals = [s \in Slots |-> NewImpl]
    /\ scope = [s \in Slots |-> FALSE]
    /\ last = NoLast
    /\ ret = NoRet
    /\ fault = "none"

\* DynamicManaged::From<Type>(args...)
From_managed(s, in) ==
    /\ fault = "none" /\ ~scope[s]
    /\ HasRoom(heap, 1)
    /\ LET h == Alloc_managed(heap)
       IN  Becomes(heap @@ (h :> Emplace(NewImpl, in.T, in.x)),
                   [ptr EXCEPT ![s] = h])
    /\ scope' = [scope EXCEPT ![s] = TRUE]
    /\ last' = [NoLast EXCEPT !.op = "From", !.d = s]
    /\ ret' = NoRet
    /\ UNCHANGED <<pc, vals, fault>>

\* ~DynamicManaged()
Destroy_managed(s) ==
    /\ fault = "none" /\ scope[s]
    /\ Becomes(heap, [ptr EXCEPT ![s] = NoHandle])
    /\ scope' = [scope EXCEPT ![s] = FALSE]
    /\ last' = [NoLast EXCEPT !.op = "Destroy", !.d = s]
    /\ ret' = NoRet
    /\ UNCHANGED <<pc, vals, fault>>

\* DynamicManaged d = s: the implicit copy constructor copies the shared_ptr
CopyConstruct_managed(d, s) ==
    /\ fault = "none" /\ ~scope[d] /\ scope[s] /\ d # s
    /\ Becomes(heap, [ptr EXCEPT ![d] = ptr[s]])
    /\ scope' = [scope EXCEPT ![d] = TRUE]
    /\ last' = [NoLast EXCEPT !.op = "CopyConstruct", !.d = d, !.s = s]
    /\ ret' = NoRet
    /\ UNCHANGED <<pc, vals, fault>>

\* d = s with a const source: the implicit copy assignment re-binds d
CopyAssign_managed(d, s) ==
    /\ fault = "none" /\ scope[d] /\ scope[s] /\ d # s
    /\ Becomes(heap, [ptr EXCEPT ![d] = ptr[s]])
    /\ last' = [NoLast EXCEPT !.op = "CopyAssign", !.d = d, !.s = s]
    /\ ret' = NoRet
    /\ UNCHANGED <<pc, vals, scope, fault>>

\* Clone that copies the shared_ptrs of the elements instead of cloning them
DoClone_shallow(d, s) ==
    /\ fault = "none" /\ ~scope[d] /\ scope[s] /\ d # s
    /\ HasRoom(heap, 1)
    /\ LET n == Alloc_managed(heap)
       IN  Becomes(heap @@ (n :> EmplaceRaw(NewImpl, heap[ptr[s]].tag_,
                                    Member(heap[ptr[s]], heap[ptr[s]].tag_))),
                   [ptr EXCEPT ![d] = n])
    /\ scope' = [scope EXCEPT ![d] = TRUE]
    /\ last' = [NoLast EXCEPT !.op = "Clone", !.d = d, !.s = s,
                              !.pre = View(s)]
    /\ ret' = NoRet
    /\ UNCHANGED <<pc, vals, fault>>

\* DynamicManaged d = s.Clone()
DoClone(d, s) ==
    /\ fault = "none" /\ ~scope[d] /\ scope[s] /\ d # s
    /\ HasRoom(heap, Cardinality(Reach(heap, {ptr[s]})))
    /\ LET c == CloneValue(heap, ptr[s])
       IN  Becomes(c.hp, [ptr EXCEPT ![d] = c.h])
    /\ scope' = [scope EXCEPT ![d] = TRUE]
    /\ last' = [NoLast EXCEPT !.op = "Clone", !.d = d, !.s = s,
                              !.pre = View(s)]
    /\ ret' = NoRet
    /\ UNCHANGED <<pc, vals, fault>>

\* v.Emplace<Type>(args...): GetImpl().Emplace<Type>(args...) on the Impl v
\* refers to
DoEmplace_managed(s, in) ==
    /\ fault = "none" /\ scope[s]
    /\ Becomes([heap EXCEPT ![ptr[s]] = Emplace(@, in.T, in.x)], ptr)
    /\ last' = [NoLast EXCEPT !.op = "Emplace", !.d = s,
                              !.pre = EmplaceRaw(NewImpl, in.T, in.x)]
    /\ ret' = NoRet
    /\ UNCHANGED <<pc, vals, scope, fault>>

\* v = x that binds v to a new Impl instead of writing the one it refers to
Assign_rebinds(s, x) ==
    /\ fault = "none" /\ scope[s]
    /\ LET T == BestFitFor(TraitsOf(x.ty))
           n == IF HasRoom(heap, 1) THEN Alloc_managed(heap) ELSE ptr[s]
       IN  /\ Becomes([h \in DOMAIN heap \cup {n} |->
                           IF h = n THEN Emplace(NewImpl, T, Converted(x))
                           ELSE heap[h]], [ptr EXCEPT ![s] = n])
           /\ last' = [NoLast EXCEPT !.op = "Assign", !.d = s, !.arg = x,
                          !.pre = EmplaceRaw(NewImpl, T, Converted(x))]
    /\ ret' = NoRet
    /\ UNCHANGED <<pc, vals, scope, fault>>

\* v = x: template operator=(Type&&), Emplace<BestFitFor<Type>>(value)
Assign_managed(s, x) ==
    /\ fault = "none" /\ scope[s]
    /\ LET T == BestFitFor(TraitsOf(x.ty))
       IN  /\ Becomes([heap EXCEPT ![ptr[s]] =
                           Emplace(@, T, Converted(x))], ptr)
           /\ last' = [NoLast EXCEPT !.op = "Assign", !.d = s, !.arg = x,
                          !.pre = EmplaceRaw(NewImpl, T, Converted(x))]
    /\ ret' = NoRet
    /\ UNCHANGED <<pc, vals, scope, fault>>

\* v.Push(x): the element is the Value From<BestFitFor<Type>>(x) made
DoPush_managed(s, x) ==
    /\ fault = "none" /\ scope[s]
    /\ IF Holds(heap[ptr[s]], "Array")
       THEN /\ Len(heap[ptr[s]].array) < MaxLen
            /\ HasRoom(heap, 1)
            /\ LET T == BestFitFor(TraitsOf(x.ty))
                   n == Alloc_managed(heap)
               IN  /\ Becomes([heap EXCEPT ![ptr[s]].array = Append(@, n)]
                              @@ (n :> Emplace(NewImpl, T, Converted(x))),
                              ptr)
                   /\ last' = [NoLast EXCEPT !.op = "Push", !.d = s,
                                  !.pre = EmplaceRaw(NewImpl, T, Converted(x))]
            /\ ret' = NoRet
       ELSE /\ ret' = Failed("InvalidAccess")
            /\ last' = [NoLast EXCEPT !.op = "Push", !.d = s]
            /\ UNCHANGED <<heap, ptr>>
    /\ UNCHANGED <<pc, vals, scope, fault>>

\* v.Pop(): the last element's shared_ptr is moved out and returned; the
\* caller reads it and lets it go
DoPop_managed(s) ==
    /\ fault = "none" /\ scope[s]
    /\ last' = [NoLast EXCEPT !.op = "Pop", !.d = s, !.pre = View(s)]
    /\ IF ~Holds(heap[ptr[s]], "Array")
       THEN /\ ret' = Failed("InvalidAccess")
            /\ UNCHANGED <<heap, ptr, fault>>
       ELSE IF Len(heap[ptr[s]].array) = 0
       THEN /\ fault' = "undefined behaviour"
            /\ ret' \in {NoRet, Returned(NewImpl)}
            /\ UNCHANGED <<heap, ptr>>
       ELSE LET n == Len(heap[ptr[s]].array)
                back == heap[ptr[s]].array[n]
            IN  /\ ret' = Returned(Deref(heap, back))
                /\ Becomes([heap EXCEPT ![ptr[s]].array =
                               SubSeq(@, 1, n - 1)], ptr)
                /\ UNCHANGED fault
    /\ UNCHANGED <<pc, vals, scope>>

\* e[k] on the Value with handle h: the heap afterwards (AtKey inserts a
\* default-constructed element for an absent key) and the element's handle
Sub_managed(hp, h, k) ==
    IF Holds(hp[h], "Array")
    THEN IF k.kt = "str" /\ StoulThrows(k.v)
         THEN [st |-> "terminate", hp |-> hp, h |-> NoHandle]
         ELSE IF ToIndexConvert(k) >= Len(hp[h].array)
         THEN [st |-> "out_of_range", hp |-> hp, h |-> NoHandle]
         ELSE [st |-> "ok", hp |-> hp, h |-> hp[h].array[ToIndexConvert(k) + 1]]
    ELSE IF Holds(hp[h], "Object")
    THEN LET key == ToStringConvert(k)
         IN  IF key \in DOMAIN hp[h].object
             THEN [st |-> "ok", hp |-> hp, h |-> hp[h].object[key]]
             ELSE LET n == Alloc_managed(hp)
                  IN  [st |-> "ok",
                       hp |-> [hp EXCEPT ![h].object = @ @@ (key :> n)]
                              @@ (n :> NewImpl),
                       h |-> n]
    ELSE [st |-> "InvalidAccess", hp |-> hp, h |-> NoHandle]

\* e[k] stays within the bounds of the model
SubWithinBound_managed(hp, h, k) ==
    (Holds(hp[h], "Object") /\ ToStringConvert(k) \notin DOMAIN hp[h].object)
        => Cardinality(DOMAIN hp[h].object) < MaxKeys /\ HasRoom(hp, 1)

\* v[k] = x
IndexAssign_managed(s, k, x) ==
    /\ fault = "none" /\ scope[s]
    /\ SubWithinBound_managed(heap, ptr[s], k)
    /\ LET r == Sub_managed(heap, ptr[s], k)
           T == BestFitFor(TraitsOf(x.ty))
       IN  /\ last' = [NoLast EXCEPT !.op = "IndexAssign", !.d = s, !.arg = x,
                          !.pre = EmplaceRaw(NewImpl, T, Converted(x))]
           /\ IF r.st = "terminate"
              THEN fault' = "terminate" /\ ret' = NoRet /\ UNCHANGED <<heap, ptr>>
              ELSE IF r.st # "ok"
              THEN ret' = Failed(r.st) /\ UNCHANGED <<heap, ptr, fault>>
              ELSE /\ Becomes([r.hp EXCEPT ![r.h] =
                                  Emplace(@, T, Converted(x))], ptr)
                   /\ ret' = NoRet
                   /\ UNCHANGED fault
    /\ UNCHANGED <<pc, vals, scope>>

\* v[k].Push(x)
IndexPush_managed(s, k, x) ==
    /\ fault = "none" /\ scope[s]
    /\ SubWithinBound_managed(heap, ptr[s], k)
    /\ last' = [NoLast EXCEPT !.op = "IndexPush", !.d = s]
    /\ LET r == Sub_managed(heap, ptr[s], k)
           T == BestFitFor(TraitsOf(x.ty))
       IN  IF r.st = "terminate"
           THEN fault' = "terminate" /\ ret' = NoRet /\ UNCHANGED <<heap, ptr>>
           ELSE IF r.st # "ok"
           THEN ret' = Failed(r.st) /\ UNCHANGED <<heap, ptr, fault>>
           ELSE IF Holds(r.hp[r.h], "Array")
           THEN /\ Len(r.hp[r.h].array) < MaxInner
                /\ HasRoom(r.hp, 1)
                /\ LET n == Alloc_managed(r.hp)
                   IN  Becomes([r.hp EXCEPT ![r.h].array = Append(@, n)]
                               @@ (n :> Emplace(NewImpl, T, Converted(x))),
                               ptr)
                /\ ret' = NoRet
                /\ UNCHANGED fault
           ELSE /\ Becomes(r.hp, ptr)
                /\ ret' = Failed("InvalidAccess")
                /\ UNCHANGED fault
    /\ UNCHANGED <<pc, vals, scope>>

\* v[k1][k2] = x
NestedAssign_managed(s, k1, k2, x) ==
    /\ fault = "none" /\ scope[s]
    /\ SubWithinBound_managed(heap, ptr[s], k1)
    /\ last' = [NoLast EXCEPT !.op = "NestedAssign", !.d = s]
    /\ LET r1 == Sub_managed(heap, ptr[s], k1)
           T == BestFitFor(TraitsOf(x.ty))
       IN  IF r1.st = "terminate"
           THEN fault' = "terminate" /\ ret' = NoRet /\ UNCHANGED <<heap, ptr>>
           ELSE IF r1.st # "ok"
           THEN ret' = Failed(r1.st) /\ UNCHANGED <<heap, ptr, fault>>
           ELSE /\ SubWithinBound_managed(r1.hp, r1.h, k2)
                /\ LET r2 == Sub_managed(r1.hp, r1.h, k2)
                   IN  IF r2.st = "terminate"
                       THEN /\ fault' = "terminate" /\ ret' = NoRet
                            /\ Becomes(r1.hp, ptr)
                       ELSE IF r2.st # "ok"
                       THEN /\ ret' = Failed(r2.st)
                            /\ Becomes(r1.hp, ptr)
                            /\ UNCHANGED fault
                       ELSE /\ Becomes([r2.hp EXCEPT ![r2.h] =
                                       Emplace(@, T, Converted(x))], ptr)
                            /\ ret' = NoRet
                            /\ UNCHANGED fault
    /\ UNCHANGED <<pc, vals, scope>>

\* Two Values of the Shared strategy: b is made an alias or a clone of a (and
\* a of b), and each is written in place at the top and below.
NextManaged ==
    \/ \E s \in Slots, in \in EmplaceIn_managed : From_managed(s, in)
    \/ \E s \in Slots : Destroy_managed(s)
    \/ \E d, s \in Slots : CopyConstruct_managed(d, s)
    \/ \E d, s \in Slots : CopyAssign_managed(d, s)
    \/ \E d, s \in Slots : DoClone(d, s)
    \/ \E s \in Slots, in \in EmplaceIn_managed : DoEmplace_managed(s, in)
    \/ \E s \in Slots, x \in ElemIn : Assign_managed(s, x)
    \/ \E s \in Slots, x \in ElemIn : DoPush_managed(s, x)
    \/ \E s \in Slots : DoPop_managed(s)
    \/ \E s \in Slots, k \in KeyInDeep, x \in ElemIn :
          IndexAssign_managed(s, k, x)
    \/ \E s \in Slots, k \in KeyInDeep, x \in ElemIn :
          IndexPush_managed(s, k, x)
    \/ \E s \in Slots, k1, k2 \in KeyInDeep, x \in ElemIn :
          NestedAssign_managed(s, k1, k2, x)

SpecManaged == InitManaged /\ [][NextManaged]_vars

-----------------------------------------------------------------------------
(* Shared Values that contain themselves: an alias pushed into the Array a
   Value refers to, and Clone and operator== walking the result *)

MaxNodes == 3

\* whether n more Impl objects keep the heap within the bound of this
\* specification
FewNodes(n) == Cardinality(DOMAIN heap) + n <= MaxNodes

RECURSIVE CloneReturns(_, _, _)
\* whether Impl::Clone, called on the Impl h with the Impl objects of path
\* being cloned by its callers, returns: it calls Clone on every element and
\* keeps no record of what it is cloning, so that an element that is being
\* cloned already is cloned again, and again below that
CloneReturns(hp, h, path) ==
    /\ h \notin path
    /\ \A kid \in Kids(hp[h]) : CloneReturns(hp, kid, path \cup {h})

RECURSIVE CloneSize(_, _)
RECURSIVE CloneSizeFrom(_, _, _)
\* the Impl objects a Clone that returns makes: one for the Value and one
\* for every element below it, an element held twice being cloned twice
CloneSize(hp, h) == 1 + CloneSizeFrom(hp, KidSeq(hp[h]), 1)

CloneSizeFrom(hp, ks, i) ==
    IF i > Len(ks) THEN 0
    ELSE CloneSize(hp, ks[i]) + CloneSizeFrom(hp, ks, i + 1)

RECURSIVE EqualsWalk(_, _, _, _)
RECURSIVE EqualsWalkFrom(_, _, _, _, _)
\* Impl::Equals of the Impl objects x and y with the pairs of path being
\* compared by its callers: "true", "false", or "never" when it comes back
\* to a pair it is comparing already; containers compare their sizes and then
\* their elements in order, up to the first that differs
EqualsWalk(hp, x, y, path) ==
    IF <<x, y>> \in path THEN "never"
    ELSE IF hp[x].tag_ # hp[y].tag_ THEN "false"
    ELSE IF hp[x].tag_ \in {"Array", "Object"}
    THEN LET l == KidSeq(hp[x])
             r == KidSeq(hp[y])
         IN  IF Len(l) # Len(r)
                \/ (hp[x].tag_ = "Object"
                    /\ DOMAIN hp[x].object # DOMAIN hp[y].object)
             THEN "false"
             ELSE EqualsWalkFrom(hp, l, r, 1, path \cup {<<x, y>>})
    ELSE IF Equals(hp[x], hp[y]) THEN "true" ELSE "false"

\* the elements of two containers of one size compared from the i-th on
EqualsWalkFrom(hp, l, r, i, path) ==
    IF i > Len(l) THEN "true"
    ELSE LET e == EqualsWalk(hp, l[i], r[i], path)
         IN  IF e = "true" THEN EqualsWalkFrom(hp, l, r, i + 1, path)
             ELSE e

\* s.GetArray().push_back(t): the Array s refers to gets a copy of the Value
\* t, a shared_ptr to the Impl t refers to, which may be the Impl of s or one
\* that holds it
InsertAlias(s, t) ==
    /\ fault = "none" /\ scope[s] /\ scope[t]
    /\ Holds(heap[ptr[s]], "Array")
    /\ Len(heap[ptr[s]].array) < MaxLen
    /\ Becomes([heap EXCEPT ![ptr[s]].array = Append(@, ptr[t])], ptr)
    /\ last' = [NoLast EXCEPT !.op = "InsertAlias", !.d = s, !.s = t]
    /\ ret' = NoRet
    /\ UNCHANGED <<pc, vals, scope, fault>>

\* DynamicManaged d = s.Clone() on a Value that may contain itself: the
\* recursion that comes back to an Impl it is cloning runs until the stack is
\* used up
Clone_shared(d, s) ==
    /\ fault = "none" /\ ~scope[d] /\ scope[s] /\ d # s
    /\ IF CloneReturns(heap, ptr[s], {})
       THEN /\ HasRoom(heap, CloneSize(heap, ptr[s]))
            /\ FewNodes(CloneSize(heap, ptr[s]))
            /\ LET c == CloneValue(heap, ptr[s])
               IN  Becomes(c.hp, [ptr EXCEPT ![d] = c.h])
            /\ scope' = [scope EXCEPT ![d] = TRUE]
            /\ UNCHANGED fault
       ELSE /\ fault' = "stack overflow"
            /\ UNCHANGED <<heap, ptr, scope>>
    /\ last' = [NoLast EXCEPT !.op = "Clone", !.d = d, !.s = s]
    /\ ret' = NoRet
    /\ UNCHANGED <<pc, vals>>

\* l == r under the Shared strategy: GetImpl().Equals(rhs.GetImpl())
Equals_shared(l, r) ==
    /\ fault = "none" /\ scope[l] /\ scope[r]
    /\ LET e == EqualsWalk(heap, ptr[l], ptr[r], {})
       IN  IF e = "never"
           THEN fault' = "stack overflow" /\ ret' = NoRet
           ELSE ret' = [NoRet EXCEPT !.st = e] /\ UNCHANGED fault
    /\ last' = [NoLast EXCEPT !.op = "Equals", !.d = l, !.s = r]
    /\ UNCHANGED <<pc, vals, scope, heap, ptr>>

\* From<Type>(args...) of the Values pushed into each other
AliasIn == {in \in EmplaceIn_managed : in.T \in {"Array", "Integer", "Null"}}

\* Values of the Shared strategy built, aliased, pushed into each other and
\* into themselves, cloned and compared
NextCyclic ==
    \/ \E s \in Slots, in \in AliasIn : FewNodes(1) /\ From_managed(s, in)
    \/ \E s \in Slots : Destroy_managed(s)
    \/ \E d, s \in Slots : CopyConstruct_managed(d, s)
    \/ \E s, t \in Slots : InsertAlias(s, t)
    \/ \E d, s \in Slots : Clone_shared(d, s)
    \/ \E l, r \in Slots : Equals_shared(l, r)

SpecCyclic == InitManaged /\ [][NextCyclic]_vars

-----------------------------------------------------------------------------
(* Comparison: operator== and Equals on Values built beforehand *)

\* the Value From<Type>(x) makes
Of(T, x) == Emplace(NewImpl, T, x)

\* an Array of Integers and an Object with Integer entries
ArrayOf(ints) == Of("Array", [i \in 1..Len(ints) |-> Of("Integer", ints[i])])

ObjectOf(entries) ==
    Of("Object", [key \in DOMAIN entries |-> Of("Integer", entries[key])])

\* the Values that are compared
CompareIn ==
    <<Of("Undefined", "unit"), Of("Null", "unit"),
      Of("Boolean", TRUE), Of("Boolean", FALSE),
      Of("Integer", 1), Of("Integer", 42),
      Of("Number", 1), Of("Number", 42), Of("Number", NaN),
      Of("String", "hi"), Of("String", ""), Of("Blob", <<7>>),
      ArrayOf(<<>>), ArrayOf(<<1>>), ArrayOf(<<1, 2>>), ArrayOf(<<2, 1>>),
      Of("Array", <<Of("Number", NaN)>>),
      Of("Object", <<>>), ObjectOf([key \in {"k"} |-> 1]),
      ObjectOf([key \in {"k"} |-> 2]), ObjectOf([key \in {"0"} |-> 1]),
      ObjectOf([key \in {"0", "k"} |-> 1])>>

InitCompare ==
    /\ NoShared
    /\ \E i, j \in 1..Len(CompareIn) :
          vals = [s \in Slots |-> IF s = "a" THEN CompareIn[i]
                                  ELSE CompareIn[j]]
    /\ scope = [s \in Slots |-> TRUE]
    /\ last = NoLast
    /\ ret = NoRet
    /\ fault = "none"

\* l == r, l.Equals(r) on two Values
DoEquals(l, r) ==
    /\ UNCHANGED mvars
    /\ fault = "none" /\ scope[l] /\ scope[r]
    /\ ret' = [NoRet EXCEPT !.st = Answer(Equals(vals[l], vals[r]))]
    /\ last' = [NoLast EXCEPT !.op = "Equals", !.d = l, !.s = r]
    /\ UNCHANGED <<vals, scope, fault>>

\* Equals<Type> that converts the payload to the type of the foreign value
\* when the Alternatives differ
EqualsType_coerces(impl, x) ==
    LET CastType == BestFitFor(TraitsOf(x.ty))
    IN  IF ~Holds(impl, CastType)
        THEN /\ impl.tag_ \in {"Integer", "Number"}
             /\ CastType \in {"Integer", "Number"}
             /\ Member(impl, impl.tag_) = Converted(x)
        ELSE ImplEquals(impl, EmplaceRaw(NewImpl, CastType, Converted(x)))

\* BasicDynamic::Equals<Type>(const Type& that):
\* if (!Holds<CastType>()) return false; return As<CastType>() == that;
EqualsType(impl, x) ==
    LET CastType == BestFitFor(TraitsOf(x.ty))
    IN  IF ~Holds(impl, CastType) THEN FALSE
        ELSE ImplEquals(impl, EmplaceRaw(NewImpl, CastType, Converted(x)))

\* v == x, and x == v, which is rhs == lhs
DoEqualsForeign(s, x, flipped) ==
    /\ UNCHANGED mvars
    /\ fault = "none" /\ scope[s]
    /\ ret' = [NoRet EXCEPT !.st = Answer(EqualsType(vals[s], x))]
    /\ last' = [NoLast EXCEPT !.op = "EqualsForeign", !.d = s, !.arg = x,
                   !.old = IF flipped THEN "flipped" ELSE "direct"]
    /\ UNCHANGED <<vals, scope, fault>>

NextCompare ==
    \/ \E l, r \in Slots : DoEquals(l, r)
    \/ \E s \in Slots, x \in ForeignIn, flipped \in BOOLEAN :
          DoEqualsForeign(s, x, flipped)

SpecCompare == InitCompare /\ [][NextCompare]_vars

-----------------------------------------------------------------------------
(* Lookup: indexing, At, Contains, Push and Pop on Values built beforehand *)

\* the Values that are looked into
LookupIn ==
    <<Of("Undefined", "unit"), Of("Null", "unit"), Of("Boolean", TRUE),
      Of("Integer", 42), Of("Number", 42), Of("String", "hi"),
      Of("Blob", <<7>>), ArrayOf(<<>>), ArrayOf(<<1, 2>>),
      Of("Object", <<>>), ObjectOf([key \in {"0"} |-> 1]),
      ObjectOf([key \in {"k"} |-> 1])>>

InitLookup ==
    /\ NoShared
    /\ \E i \in 1..Len(LookupIn) :
          vals = [s \in Slots |-> IF s = "a" THEN LookupIn[i] ELSE NewImpl]
    /\ scope = [s \in Slots |-> s = "a"]
    /\ last = NoLast
    /\ ret = NoRet
    /\ fault = "none"

\* the key handed to an operation, as the ghost keeps it
KeyArg(k) == [ty |-> k.kt, v |-> k.v]

\* v[k] that turns a Value holding no container into an Object
Sub_autoObject(impl, k) ==
    LET key == ToStringConvert(k)
    IN  [st |-> "ok",
         self |-> EmplaceRaw(NewImpl, "Object", [kk \in {key} |-> NewImpl]),
         at |-> [NoAt EXCEPT !.c = "object", !.key = key]]

\* v[k] on a Value that holds neither an Array nor an Object: InvalidAccess()
SubOther(impl, k) == [st |-> "InvalidAccess", self |-> impl, at |-> NoAt]

\* v[k] on a non-const Value, read
Index(s, k) ==
    /\ UNCHANGED mvars
    /\ fault = "none" /\ scope[s]
    /\ last' = [NoLast EXCEPT !.op = "Index", !.d = s, !.pre = vals[s],
                              !.arg = KeyArg(k)]
    /\ LET r == IF Holds(vals[s], "Array") \/ Holds(vals[s], "Object")
                THEN Sub(vals[s], k) ELSE SubOther(vals[s], k)
       IN  IF r.st = "terminate"
           THEN fault' = "terminate" /\ ret' = NoRet /\ UNCHANGED vals
           ELSE IF r.st # "ok"
           THEN ret' = Failed(r.st) /\ UNCHANGED <<vals, fault>>
           ELSE /\ vals' = [vals EXCEPT ![s] = r.self]
                /\ ret' = Returned(ElemOf(r.self, r.at))
                /\ UNCHANGED fault
    /\ UNCHANGED scope

\* As<Object>().at(key) that answers a default-constructed Value for a key
\* that is absent
ObjectAt_lenient(impl, key) ==
    IF ~Holds(impl, "Object") THEN Failed("InvalidAccess")
    ELSE IF key \notin DOMAIN impl.object THEN Returned(NewImpl)
    ELSE Returned(impl.object[key])

\* As<Object>().at(key): As throws InvalidAccessException when the Value
\* holds no Object, std::unordered_map::at throws std::out_of_range when the
\* key is absent
ObjectAt(impl, key) ==
    IF ~Holds(impl, "Object") THEN Failed("InvalidAccess")
    ELSE IF key \notin DOMAIN impl.object THEN Failed("out_of_range")
    ELSE Returned(impl.object[key])

\* v[k] on a const Value: AtIndex(index) const, AtKey(key) const
IndexConst(s, k) ==
    /\ UNCHANGED mvars
    /\ fault = "none" /\ scope[s]
    /\ last' = [NoLast EXCEPT !.op = "IndexConst", !.d = s, !.pre = vals[s],
                              !.arg = KeyArg(k)]
    /\ IF Holds(vals[s], "Array")
       THEN IF k.kt = "str" /\ StoulThrows(k.v)
            THEN fault' = "terminate" /\ ret' = NoRet
            ELSE /\ ret' = IF ToIndexConvert(k) >= Len(vals[s].array)
                           THEN Failed("out_of_range")
                           ELSE Returned(vals[s].array[ToIndexConvert(k) + 1])
                 /\ UNCHANGED fault
       ELSE /\ ret' = ObjectAt(vals[s], ToStringConvert(k))
            /\ UNCHANGED fault
    /\ UNCHANGED <<vals, scope>>

\* v.At(key)
At(s, key) ==
    /\ UNCHANGED mvars
    /\ fault = "none" /\ scope[s]
    /\ last' = [NoLast EXCEPT !.op = "At", !.d = s, !.pre = vals[s],
                              !.arg = [ty |-> "str", v |-> key]]
    /\ ret' = ObjectAt(vals[s], key)
    /\ UNCHANGED <<vals, scope, fault>>

\* v.Contains(key) that looks the key up with operator[] of the map, which
\* inserts a key that is absent
DoContains_inserts(s, key) ==
    /\ UNCHANGED mvars
    /\ fault = "none" /\ scope[s]
    /\ last' = [NoLast EXCEPT !.op = "Contains", !.d = s, !.pre = vals[s],
                              !.arg = [ty |-> "str", v |-> key]]
    /\ IF ~Holds(vals[s], "Object")
       THEN ret' = Failed("InvalidAccess") /\ UNCHANGED vals
       ELSE /\ ret' = [NoRet EXCEPT
                         !.st = Answer(key \in DOMAIN vals[s].object)]
            /\ vals' = [vals EXCEPT ![s].object =
                           [kk \in DOMAIN @ \cup {key} |->
                               IF kk \in DOMAIN @ THEN @[kk] ELSE NewImpl]]
    /\ UNCHANGED <<scope, fault>>

\* v.Contains(key): As<Object>(), then find(key) != end()
DoContains(s, key) ==
    /\ UNCHANGED mvars
    /\ fault = "none" /\ scope[s]
    /\ last' = [NoLast EXCEPT !.op = "Contains", !.d = s, !.pre = vals[s],
                              !.arg = [ty |-> "str", v |-> key]]
    /\ ret' = IF ~Holds(vals[s], "Object") THEN Failed("InvalidAccess")
              ELSE [NoRet EXCEPT !.st = Answer(key \in DOMAIN vals[s].object)]
    /\ UNCHANGED <<vals, scope, fault>>

NextLookup ==
    \/ \E k \in KeyIn : Index("a", k)
    \/ \E k \in KeyIn : IndexConst("a", k)
    \/ \E key \in Keys : At("a", key)
    \/ \E key \in Keys : DoContains("a", key)
    \/ \E x \in ElemIn : DoPush("a", x)
    \/ DoPop("a")
    \/ \E k \in KeyIn, x \in ElemIn : IndexAssign("a", k, x)

SpecLookup == InitLookup /\ [][NextLookup]_vars

-----------------------------------------------------------------------------
(* The facade of src/include/dynamicxx/dynamicxx.h: comparison with a       *)
(* foreign value and operator[]                                             *)

InitFacadeH ==
    /\ NoShared
    /\ \E i \in 1..Len(LookupIn) :
          /\ LookupIn[i].tag_ \in Tags_h
          /\ vals = [s \in Slots |-> IF s = "a" THEN LookupIn[i] ELSE NewImpl]
    /\ scope = [s \in Slots |-> s = "a"]
    /\ last = NoLast
    /\ ret = NoRet
    /\ fault = "none"

\* BasicDynamic::Equals<Type>(const Type& that) of dynamicxx.h
EqualsType_h(impl, x) ==
    LET CastType == BestFitFor_h(TraitsOf(x.ty))
    IN  IF ~Holds(impl, CastType) THEN FALSE
        ELSE ImplEquals(impl, EmplaceRaw(NewImpl, CastType, Converted(x)))

\* v == x is the one operator==(const BasicDynamic&, Type&&).  x == v has no
\* operator== of its own: before C++20 the expression does not compile, from
\* C++20 on the compiler rewrites it to v == x.
DoEqualsForeign_h(s, x, flipped) ==
    /\ UNCHANGED mvars
    /\ fault = "none" /\ scope[s]
    /\ \/ ret' = [NoRet EXCEPT !.st = Answer(EqualsType_h(vals[s], x))]
       \/ flipped /\ ret' = [NoRet EXCEPT !.st = "ill-formed"]
    /\ last' = [NoLast EXCEPT !.op = "EqualsForeign", !.d = s, !.arg = x,
                   !.old = IF flipped THEN "flipped" ELSE "direct"]
    /\ UNCHANGED <<vals, scope, fault>>

\* v[k] of dynamicxx.h: the overloads taking an integer type call
\* AtIndex(index), which is As<Array>().at(index); the template taking
\* const Key& is As<Object>()[key]
Index_h(s, k) ==
    /\ UNCHANGED mvars
    /\ fault = "none" /\ scope[s]
    /\ last' = [NoLast EXCEPT !.op = "Index", !.d = s, !.pre = vals[s],
                              !.arg = KeyArg(k)]
    /\ LET r == IF k.kt = "int" /\ Holds(vals[s], "Array")
                THEN Sub(vals[s], k)
                ELSE IF k.kt = "str" /\ Holds(vals[s], "Object")
                THEN Sub(vals[s], k)
                ELSE SubOther(vals[s], k)
       IN  IF r.st # "ok"
           THEN ret' = Failed(r.st) /\ UNCHANGED vals
           ELSE /\ vals' = [vals EXCEPT ![s] = r.self]
                /\ ret' = Returned(ElemOf(r.self, r.at))
    /\ UNCHANGED <<scope, fault>>

NextFacadeH ==
    \/ \E x \in ForeignIn_h, flipped \in BOOLEAN :
          DoEqualsForeign_h("a", x, flipped)
    \/ \E k \in KeyIn : Index_h("a", k)

SpecFacadeH == InitFacadeH /\ [][NextFacadeH]_vars

-----------------------------------------------------------------------------
(* A scenario on one Owned Array: From<Array>(n), then Push and v[i] = x in *)
(* any order; pc lists the steps taken                                      *)

ScenarioSize == 3
MaxSteps == 4

ScenarioPushIn == {x \in ForeignIn : x.ty \in {"int", "cstr"}}

ScenarioKeyIn == {[kt |-> "int", v |-> i] : i \in 0..1}

Step(op, i, x) == [op |-> op, i |-> i, x |-> x]

InitScenario ==
    /\ NoShared
    /\ vals = [s \in Slots |-> NewImpl]
    /\ scope = [s \in Slots |-> FALSE]
    /\ last = NoLast
    /\ ret = NoRet
    /\ fault = "none"

\* Dynamic d = Dynamic::From<Dynamic::Array>(n): Array{n} is the vector of n
\* default-constructed Values
ScenarioFrom(n) ==
    /\ fault = "none" /\ pc = <<>> /\ ~scope["a"]
    /\ LET dynamic == Emplace(NewImpl, "Array", [i \in 1..n |-> NewImpl])
       IN  vals' = [vals EXCEPT !["a"] = MoveRaw(NewImpl, dynamic).self]
    /\ scope' = [scope EXCEPT !["a"] = TRUE]
    /\ pc' = <<Step("From", n, NoArg)>>
    /\ last' = [NoLast EXCEPT !.op = "From"]
    /\ ret' = NoRet
    /\ UNCHANGED <<fault, heap, ptr>>

\* d.Push(x) that puts the new element in front
ScenarioPush_front(x) ==
    /\ fault = "none" /\ scope["a"] /\ Len(pc) < MaxSteps
    /\ LET T == BestFitFor(TraitsOf(x.ty))
           tmp == Emplace(NewImpl, T, Converted(x))
           m == MoveRaw(NewImpl, tmp)
       IN  vals' = [vals EXCEPT !["a"].array = <<m.self>> \o @]
    /\ pc' = Append(pc, Step("Push", 0, x))
    /\ last' = [NoLast EXCEPT !.op = "Push", !.arg = x]
    /\ ret' = NoRet
    /\ UNCHANGED <<scope, fault, heap, ptr>>

\* d.Push(x): As<Array>().emplace_back(From<BestFitFor<Type>>(x))
ScenarioPush(x) ==
    /\ fault = "none" /\ scope["a"] /\ Len(pc) < MaxSteps
    /\ LET T == BestFitFor(TraitsOf(x.ty))
           tmp == Emplace(NewImpl, T, Converted(x))
           m == MoveRaw(NewImpl, tmp)
       IN  vals' = [vals EXCEPT !["a"].array = Append(@, m.self)]
    /\ pc' = Append(pc, Step("Push", 0, x))
    /\ last' = [NoLast EXCEPT !.op = "Push", !.arg = x]
    /\ ret' = NoRet
    /\ UNCHANGED <<scope, fault, heap, ptr>>

\* d[k] = x: operator[] returns the element, or throws; the generic
\* assignment emplaces BestFitFor<Type> in the element
ScenarioSet(k, x) ==
    /\ fault = "none" /\ scope["a"] /\ Len(pc) < MaxSteps
    /\ LET r == Sub(vals["a"], k)
           T == BestFitFor(TraitsOf(x.ty))
       IN  IF r.st # "ok"
           THEN ret' = Failed(r.st) /\ UNCHANGED vals
           ELSE /\ vals' = [vals EXCEPT !["a"] =
                              Put(r.self, r.at,
                                  Emplace(ElemOf(r.self, r.at), T,
                                          Converted(x)))]
                /\ ret' = NoRet
    /\ pc' = Append(pc, Step("Set", k.v, x))
    /\ last' = [NoLast EXCEPT !.op = "IndexAssign", !.arg = x]
    /\ UNCHANGED <<scope, fault, heap, ptr>>

NextScenario ==
    \/ \E n \in 0..ScenarioSize : ScenarioFrom(n)
    \/ \E x \in ScenarioPushIn : ScenarioPush(x)
    \/ \E k \in ScenarioKeyIn, x \in ElemIn : ScenarioSet(k, x)

SpecScenario == InitScenario /\ [][NextScenario]_vars

-----------------------------------------------------------------------------
(* Type Resolver: BestFitFor applied to the types of a catalogue *)

NamedTypes ==
    {"bool", "int", "unsigned", "char", "float", "long double", "Integer",
     "Number", "String", "cstr", "Blob", "Array", "Object"}

\* class types that are none of the Alternatives' types, by what they are
\* constructible into
ClassTraits ==
    {Traits("no", FALSE, FALSE, FALSE, s, b, a, o) : s, b, a, o \in BOOLEAN}

ResolverIn ==
    {[ty |-> n, v |-> TraitsOf(n)] : n \in NamedTypes}
    \cup {[ty |-> "class", v |-> t] : t \in ClassTraits}

InitResolver ==
    /\ NoShared
    /\ vals = [s \in Slots |-> NewImpl]
    /\ scope = [s \in Slots |-> FALSE]
    /\ last \in {[NoLast EXCEPT !.arg = in] : in \in ResolverIn}
    /\ ret = NoRet
    /\ fault = "none"

\* typename BestFitFor<Type>::type, compiled without concepts
Resolve ==
    /\ ret' = [NoRet EXCEPT !.st = "chain", !.T = BestFitFor(last.arg.v)]
    /\ UNCHANGED <<pc, vals, scope, last, fault, heap, ptr>>

\* typename BestFitFor<Type>::type, compiled with concepts
Resolve_concepts ==
    /\ ret' = [NoRet EXCEPT !.st = "concepts",
                            !.T = BestFitFor_concepts(last.arg.v)]
    /\ UNCHANGED <<pc, vals, scope, last, fault, heap, ptr>>

\* typename BestFitFor<Type>::type of src/include/dynamicxx/dynamicxx.h
Resolve_h ==
    /\ ret' = [NoRet EXCEPT !.st = "h", !.T = BestFitFor_h(last.arg.v)]
    /\ UNCHANGED <<pc, vals, scope, last, fault, heap, ptr>>

NextResolver ==
    \/ Resolve
    \/ Resolve_concepts
    \/ Resolve_h

SpecResolver == InitResolver /\ [][NextResolver]_vars

-----------------------------------------------------------------------------
(* Properties of the Owned strategy *)

RECURSIVE Agrees(_)
\* the live member of impl is the one its discriminator names, no other
\* member holds data, and the same holds of the Values nested in it
Agrees(impl) ==
    /\ impl.tag_ \in Tags
    /\ impl.live = (IF impl.tag_ \in UnitTags THEN "none" ELSE impl.tag_)
    /\ \A T \in Tags \ (UnitTags \cup {impl.tag_}) :
          Member(impl, T) = Member(NoPayload, T)
    /\ \A i \in 1..Len(impl.array) : Agrees(impl.array[i])
    /\ \A k \in DOMAIN impl.object : Agrees(impl.object[k])

\* C1: in every reachable state the payload member alive in a Value is
\* exactly the one its discriminator names, at most one member is alive, and
\* none is when the discriminator is Undefined (nested Values included).
C1_DiscriminatorAgrees ==
    \A s \in Slots : Agrees(vals[s])

\* C1 witness: after an indexed write a holds an Array with an Array
\* element, next to a second Value holding a String
C1_Witness ==
    /\ last.op = "IndexAssign"
    /\ vals["a"].tag_ = "Array"
    /\ \E i \in 1..Len(vals["a"].array) : vals["a"].array[i].tag_ = "Array"
    /\ scope["b"] /\ vals["b"].tag_ = "String"

\* C2: a copy (construction or assignment) holds the Alternative of its
\* source, compares equal to it, and leaves the source as it was.
C2_CopyEqualsSource ==
    (last.op \in {"CopyConstruct", "CopyAssign"} /\ fault = "none") =>
        /\ vals[last.d].tag_ = last.pre.tag_
        /\ Equals(vals[last.d], vals[last.s])
        /\ vals[last.s] = last.pre

\* C3: after a is moved into b, a is Undefined, b holds the Alternative and
\* payload a held before, and what b held before was destroyed first.
C3_MoveLeavesUndefined ==
    (last.op \in {"MoveConstruct", "MoveAssign"} /\ last.d # last.s) =>
        /\ Holds(vals[last.s], "Undefined")
        /\ vals[last.s].live = "none"
        /\ vals[last.d].tag_ = last.pre.tag_
        /\ Member(vals[last.d], last.pre.tag_)
              = Member(last.pre, last.pre.tag_)
        /\ vals[last.d].audit = "ok"

\* C3 witness: a non-empty Array was move-assigned over a String
C3_Witness ==
    /\ last.op = "MoveAssign" /\ last.d # last.s
    /\ last.old = "String"
    /\ last.pre.tag_ = "Array" /\ Len(last.pre.array) > 0
    /\ vals[last.d].tag_ = "Array"

RECURSIVE Audited(_)
\* no payload of impl, or of a Value nested in it, was constructed over a
\* live one, and no destructor ran on a member that was not the live one
Audited(impl) ==
    /\ impl.audit = "ok"
    /\ \A i \in 1..Len(impl.array) : Audited(impl.array[i])
    /\ \A k \in DOMAIN impl.object : Audited(impl.object[k])

\* C5: every payload is torn down once, by the teardown of its own
\* Alternative, and a destroyed Value has the discriminator Undefined and
\* nothing left to tear down.
C5_TornDownOnce ==
    /\ \A s \in Slots : Audited(vals[s])
    /\ last.op = "Destroy" =>
          /\ vals[last.d].tag_ = "Undefined"
          /\ vals[last.d].live = "none"

\* C6: no operation reaches the default branch of a dispatch on the
\* discriminator (ThrowInvalidTerminatingTag).
C6_NoInvalidTag ==
    fault # "invalid tag"

ResolvesTo(ty) ==
    CASE ty = "bool"   -> "Boolean"
      [] ty = "int"    -> "Integer"
      [] ty = "float"  -> "Number"
      [] ty = "cstr"   -> "String"
      [] ty = "Blob"   -> "Blob"
      [] ty = "Array"  -> "Array"
      [] ty = "Object" -> "Object"

\* C9: after v = x, whatever v held, v holds the Alternative the Type
\* Resolver picks for x with the payload x, and the payload v held before
\* was destroyed before the new one was constructed.
C9_AssignReplaces ==
    last.op = "Assign" =>
        LET v == vals[last.d]
        IN  /\ v.tag_ = ResolvesTo(last.arg.ty)
            /\ Member(v, v.tag_) = last.arg.v
            /\ Agrees(v)
            /\ v.audit = "ok"

\* C9 witness: a text literal was assigned to a Value holding an Array
C9_Witness ==
    /\ last.op = "Assign" /\ last.arg.ty = "cstr"
    /\ last.old = "Array"
    /\ vals[last.d].tag_ = "String" /\ vals[last.d].string = "hi"

-----------------------------------------------------------------------------
(* Properties of the Shared strategy, the queries and the Type Resolver *)

\* C4: under the Shared strategy, after b is moved from a, a still refers
\* to an Impl, that Impl is Undefined, and no query on a Value fails.
C4_SharedMovedFromUndefined ==
    /\ (last.op \in {"MoveConstruct", "MoveAssign"} /\ last.d # last.s) =>
          /\ ptr[last.s] \in DOMAIN heap
          /\ IsX(heap[ptr[last.s]], "Undefined") = "true"
    /\ last.op = "Query" => fault = "none"

\* C7: a default-constructed Value is Undefined, and a Value built by
\* From<X> or Emplace<X> answers IsX() with true and every other IsY() with
\* false.
C7_QueriesNameTheAlternative ==
    /\ last.op = "DefaultConstruct" =>
          IsX(vals[last.d], "Undefined") = "true"
    /\ last.op \in {"From", "Emplace"} =>
          \A X \in Tags : IsX(vals[last.d], X) = Answer(X = last.pre.tag_)

\* the Alternatives a type matches, and the first of them in the order
\* Boolean, Integer, Number, String, Blob, Array, Object
Matching(t) ==
    {A \in Tags : \/ A = "Boolean" /\ t.isBool
                  \/ A = "Integer" /\ t.isIntegral
                  \/ A = "Number" /\ t.isFloat
                  \/ A = "String" /\ t.toString
                  \/ A = "Blob" /\ t.toBlob
                  \/ A = "Array" /\ t.toArray
                  \/ A = "Object" /\ t.toObject}

ResolverOrder ==
    <<"Boolean", "Integer", "Number", "String", "Blob", "Array", "Object">>

FirstMatching(t) ==
    LET i == CHOOSE j \in 1..Len(ResolverOrder) :
                /\ ResolverOrder[j] \in Matching(t)
                /\ \A k \in 1..(j - 1) : ResolverOrder[k] \notin Matching(t)
    IN  ResolverOrder[i]

\* C10: the Type Resolver of the current revision, compiled with or without
\* concepts, gives every type that matches some Alternative exactly one, the
\* first it matches in the order Boolean, Integer, Number, String, Blob,
\* Array, Object.
C10_ResolverFirstMatch ==
    (ret.st \in {"chain", "concepts"} /\ Matching(last.arg.v) # {}) =>
        ret.T = FirstMatching(last.arg.v)

-----------------------------------------------------------------------------
(* Properties of aliases and clones under the Shared strategy *)

OtherSlot(s) == CHOOSE t \in Slots : t # s

InPlaceOps ==
    {"Assign", "Emplace", "Push", "Pop", "IndexAssign", "IndexPush",
     "NestedAssign"}

\* C12: under the Shared strategy, while a and b are aliases (b was copied
\* from a and neither was re-bound since), a write made in place through
\* one of them (v[key] = x, v = x, Emplace, Push, Pop) leaves them aliases
\* and is seen through the other: the other reads the assigned or emplaced
\* value, the pushed element at the back, the Array one shorter after Pop,
\* the written entry after v[key] = x.
C12_AliasSeesWrites ==
    [][(/\ scope["a"] /\ scope["b"] /\ ptr["a"] = ptr["b"]
        /\ last'.op \in InPlaceOps /\ fault' = "none")
       => LET o == OtherSlot(last'.d)
              seen == Deref(heap', ptr'[o])
              was == Deref(heap, ptr[o])
          IN  /\ ptr'[o] = ptr'[last'.d]
              /\ last'.op \in {"Assign", "Emplace"} => seen = last'.pre
              /\ (last'.op = "Push" /\ ret'.st = "none") =>
                    /\ Len(seen.array) = Len(was.array) + 1
                    /\ seen.array[Len(seen.array)] = last'.pre
              /\ (last'.op = "Pop" /\ ret'.st = "ok") =>
                    seen.array = SubSeq(was.array, 1, Len(was.array) - 1)
              /\ (last'.op = "IndexAssign" /\ ret'.st = "none") =>
                    \/ /\ Holds(seen, "Array")
                       /\ \E i \in 1..Len(seen.array) :
                             seen.array[i] = last'.pre
                    \/ /\ Holds(seen, "Object")
                       /\ \E key \in DOMAIN seen.object :
                             seen.object[key] = last'.pre]_vars

\* a wrote a["k"] = 42 and its alias b reads 42 under "k"
C12_Witness ==
    /\ last.op = "IndexAssign" /\ last.d = "a" /\ ret.st = "none"
    /\ scope["a"] /\ scope["b"] /\ ptr["a"] = ptr["b"]
    /\ Holds(View("b"), "Object") /\ "k" \in DOMAIN View("b").object
    /\ Holds(View("b").object["k"], "Integer")
    /\ View("b").object["k"].integer = 42

\* the Impl objects two Values have in common, at any depth
SharedStorage(hp, p) == Reach(hp, {p["a"]}) \cap Reach(hp, {p["b"]})

\* C13: under the Shared strategy c = a.Clone() shares no Impl with a at any
\* nesting depth, and while two Values share no Impl a write made in place
\* through one of them (at the top, to v[k], to v[k1][k2], a Push into v[k])
\* changes nothing that is read through the other and creates no sharing.
C13_CloneSharesNothing ==
    [][/\ last'.op = "Clone" => SharedStorage(heap', ptr') = {}
       /\ (/\ scope["a"] /\ scope["b"] /\ SharedStorage(heap, ptr) = {}
           /\ last'.op \in InPlaceOps)
          => LET o == OtherSlot(last'.d)
             IN  /\ Deref(heap', ptr'[o]) = Deref(heap, ptr[o])
                 /\ SharedStorage(heap', ptr') = {}]_vars

\* two Objects that share nothing, one of them just written under "k" two
\* levels down, the other still reading 42 there
C13_Witness ==
    /\ last.op = "NestedAssign" /\ ret.st = "none" /\ fault = "none"
    /\ scope["a"] /\ scope["b"] /\ SharedStorage(heap, ptr) = {}
    /\ \A t \in Slots :
          /\ Holds(View(t), "Object") /\ DOMAIN View(t).object = {"k"}
          /\ Holds(View(t).object["k"], "Array")
          /\ Len(View(t).object["k"].array) = 1
    /\ Holds(View(last.d).object["k"].array[1], "Array")
    /\ Holds(View(OtherSlot(last.d)).object["k"].array[1], "Integer")
    /\ View(OtherSlot(last.d)).object["k"].array[1].integer = 42

RECURSIVE StructurallyEqual(_, _)
\* the structural relation on Values: the same Alternative and the same
\* payload; Arrays the same length with related elements in order, Objects
\* the same keys with related values
StructurallyEqual(x, y) ==
    /\ x.tag_ = y.tag_
    /\ CASE x.tag_ = "Array" ->
              /\ Len(x.array) = Len(y.array)
              /\ \A i \in 1..Len(x.array) :
                    StructurallyEqual(x.array[i], y.array[i])
         [] x.tag_ = "Object" ->
              /\ DOMAIN x.object = DOMAIN y.object
              /\ \A key \in DOMAIN x.object :
                    StructurallyEqual(x.object[key], y.object[key])
         [] OTHER -> Member(x, x.tag_) = Member(y, y.tag_)

-----------------------------------------------------------------------------
(* Properties of comparison *)

\* C15: a == b on two Values answers, without an error, whether they are in
\* the structural relation: false when the discriminators differ; with the
\* same discriminator Null and Undefined are equal, scalars, String and Blob
\* compare by value, Arrays by length and pairwise in order, Objects by key
\* set and value per key; a == a is true and b == a answers as a == b.
C15_EqualityIsStructural ==
    last.op = "Equals" =>
        /\ ret.st = Answer(StructurallyEqual(vals[last.d], vals[last.s]))
        /\ last.d = last.s => ret.st = "true"
        /\ ret.st = Answer(Equals(vals[last.s], vals[last.d]))

RECURSIVE HoldsNaN(_)
\* a Number that is NaN, in the Value or in a Value nested in it
HoldsNaN(v) ==
    CASE v.tag_ = "Number" -> v.number = NaN
      [] v.tag_ = "Array"  -> \E i \in 1..Len(v.array) : HoldsNaN(v.array[i])
      [] v.tag_ = "Object" ->
            \E key \in DOMAIN v.object : HoldsNaN(v.object[key])
      [] OTHER -> FALSE

\* C15, amended: a == b on two Values answers without an error and is
\* symmetric; it is false when the discriminators differ; on Values that hold
\* no NaN it is the structural relation, and so reflexive; a Value that holds
\* a NaN Number at any depth is unequal to every Value, itself included.
C15_StructuralUpToNaN ==
    last.op = "Equals" =>
        LET lhs == vals[last.d]
            rhs == vals[last.s]
        IN  /\ ret.st \in {"true", "false"}
            /\ ret.st = Answer(Equals(rhs, lhs))
            /\ lhs.tag_ # rhs.tag_ => ret.st = "false"
            /\ (HoldsNaN(lhs) \/ HoldsNaN(rhs)) => ret.st = "false"
            /\ (~HoldsNaN(lhs) /\ ~HoldsNaN(rhs)) =>
                  /\ ret.st = Answer(StructurallyEqual(lhs, rhs))
                  /\ last.d = last.s => ret.st = "true"

\* the Arrays [1, 2] and [2, 1] were compared and found unequal
C15_Witness ==
    /\ last.op = "Equals" /\ ret.st = "false"
    /\ vals[last.d] = ArrayOf(<<1, 2>>)
    /\ vals[last.s] = ArrayOf(<<2, 1>>)

\* C16: v == x and x == v, with x a bare foreign value, answer true exactly
\* when v holds the Alternative the Type Resolver picks for x and v's
\* payload equals x, and answer false, without an error and without
\* coercion, when the Alternatives differ.
C16_ForeignEquality ==
    last.op = "EqualsForeign" =>
        LET v == vals[last.d]
            T == ResolvesTo(last.arg.ty)
        IN  ret.st = Answer(/\ v.tag_ = T
                            /\ Member(v, T) = Converted(last.arg))

-----------------------------------------------------------------------------
(* Properties of indexing and of the container operations *)

\* the decimal text of the integer keys of the model
DecimalText(n) == IF n = 0 THEN "0" ELSE "-1"

\* C17: v[k] with an integer-like key k goes by the Alternative v holds:
\* on an Array it returns the element at position k; on an Object it returns
\* the entry under the decimal text of k, the entry v["<k>"] denotes.
C17_IndexGoesByAlternative ==
    (last.op = "Index" /\ last.arg.ty = "int") =>
        /\ (Holds(last.pre, "Array") /\ last.arg.v \in 0..(Len(last.pre.array) - 1))
              => ret = Returned(last.pre.array[last.arg.v + 1])
        /\ Holds(last.pre, "Object") =>
              LET key == DecimalText(last.arg.v)
              IN  /\ ret.st = "ok"
                  /\ key \in DOMAIN vals[last.d].object
                  /\ ret = Returned(vals[last.d].object[key])
                  /\ key \in DOMAIN last.pre.object =>
                        ret = Returned(last.pre.object[key])

\* the container operation of the step does not fit the Alternative the
\* Value held when the step began
Unsupported(op, impl) ==
    \/ op \in {"Index", "IndexConst", "At"}
          /\ ~Holds(impl, "Array") /\ ~Holds(impl, "Object")
    \/ op \in {"Push", "Pop"} /\ ~Holds(impl, "Array")
    \/ op = "Contains" /\ ~Holds(impl, "Object")

\* C18: indexing and At on a Value that holds neither an Array nor an
\* Object, Push and Pop on a Value that holds no Array, and Contains on a
\* Value that holds no Object fail with InvalidAccess and leave every Value
\* as it was; none of them answers a default or makes the Value a container.
C18_UnsupportedFails ==
    [][Unsupported(last'.op, vals[last'.d]) =>
          /\ ret'.st = "InvalidAccess"
          /\ vals' = vals
          /\ fault' = "none"]_vars

C18_Witness ==
    /\ last.op \in {"Index", "Push", "Pop", "Contains", "At", "IndexConst"}
    /\ Unsupported(last.op, last.pre)
    /\ vals[last.d] = last.pre
    /\ ret.st = "InvalidAccess"

\* the text key v[k] uses on an Object
KeyOf(arg) == IF arg.ty = "int" THEN DecimalText(arg.v) ELSE arg.v

\* C19: non-const v[key] on a Value holding an Object, key absent: exactly
\* one entry is added, it is under key, it is Undefined and it is the entry
\* returned, the other entries keep their values; key present: the existing
\* entry is returned and the Object is left as it was.
C19_IndexInsertsUndefined ==
    (last.op = "Index" /\ Holds(last.pre, "Object")) =>
        LET key == KeyOf(last.arg)
            old == last.pre.object
            new == vals[last.d].object
        IN  /\ Holds(vals[last.d], "Object")
            /\ ret.st = "ok"
            /\ IF key \in DOMAIN old
               THEN new = old /\ ret = Returned(old[key])
               ELSE /\ DOMAIN new = DOMAIN old \cup {key}
                    /\ Cardinality(DOMAIN new) = Cardinality(DOMAIN old) + 1
                    /\ \A kk \in DOMAIN old : new[kk] = old[kk]
                    /\ new[key] = NewImpl
                    /\ ret.T = "Undefined"

C19_Witness ==
    /\ last.op = "Index" /\ Holds(last.pre, "Object")
    /\ KeyOf(last.arg) \notin DOMAIN last.pre.object
    /\ DOMAIN last.pre.object # {}
    /\ KeyOf(last.arg) \in DOMAIN vals[last.d].object
    /\ ret.T = "Undefined"

\* C20: At(key) and const indexing on a Value holding an Object, key
\* absent: the lookup fails with InvalidAccess, and the Object has the key
\* set and the values it had.
C20_CheckedLookupFails ==
    (/\ last.op \in {"At", "IndexConst"}
     /\ Holds(last.pre, "Object")
     /\ KeyOf(last.arg) \notin DOMAIN last.pre.object) =>
        /\ ret.st = "InvalidAccess"
        /\ vals[last.d] = last.pre

\* the key of the step converts to an index
ConvertsToIndex(arg) == arg.ty = "int" \/ ~StoulThrows(arg.v)

\* the index the key of the step converts to: an integer key as an unsigned
\* number, a text key by its decimal value
IndexOf(arg) ==
    IF arg.ty = "int"
    THEN (IF arg.v < 0 THEN SizeModulus + arg.v ELSE arg.v)
    ELSE CHOOSE n \in 0..9 : Digits[n + 1] = arg.v

\* C21: indexing a Value that holds an Array of N elements with a key that
\* converts to an index outside 0..N-1, a negative integer key included,
\* fails with an error, returns no element and leaves the Array as it was.
C21_IndexBoundsChecked ==
    (/\ last.op \in {"Index", "IndexConst"}
     /\ Holds(last.pre, "Array")
     /\ ConvertsToIndex(last.arg)
     /\ IndexOf(last.arg) \notin 0..(Len(last.pre.array) - 1)) =>
        /\ ret.st \notin {"ok", "none"}
        /\ ret.T = NoRet.T
        /\ fault = "none"
        /\ vals[last.d] = last.pre

C21_Witness ==
    /\ last.op = "Index" /\ Holds(last.pre, "Array")
    /\ Len(last.pre.array) = 2
    /\ last.arg.ty = "int" /\ last.arg.v < 0
    /\ ret.st = "out_of_range"
    /\ vals[last.d] = last.pre

-----------------------------------------------------------------------------
(* Properties of Arrays: construction with a size, Push, Pop *)

\* the operations that replace the whole Value of their destination
Replacing ==
    {"DefaultConstruct", "Destroy", "Emplace", "From", "Assign",
     "CopyConstruct", "CopyAssign", "MoveConstruct", "MoveAssign",
     "EmplaceOwn", "AssignOwnElement"}

\* C22: a Value constructed as an Array of size N has exactly N elements, all
\* Undefined, each an element of its own; an indexed write v[i] = x keeps the
\* count and changes no element but the one at i; the count of an Array
\* changes only by Push, by one up, and by Pop, by one down.
C22_SizeChangesByPushPop ==
    [][/\ (last'.op \in {"From", "Emplace"} /\ Holds(last'.pre, "Array")) =>
             /\ Holds(vals'[last'.d], "Array")
             /\ Len(vals'[last'.d].array) = Len(last'.pre.array)
             /\ \A i \in 1..Len(last'.pre.array) :
                   vals'[last'.d].array[i] = NewImpl
       /\ \A s \in Slots :
             (/\ Holds(vals[s], "Array") /\ scope[s]
              /\ last'.op \notin Replacing) =>
                LET old == vals[s].array
                    new == vals'[s].array
                IN  /\ Holds(vals'[s], "Array")
                    /\ last'.op = "IndexAssign" =>
                          /\ Len(new) = Len(old)
                          /\ Cardinality({i \in 1..Len(old) :
                                             new[i] # old[i]}) <= 1
                    /\ Len(new) # Len(old) =>
                          \/ last'.op = "Push" /\ Len(new) = Len(old) + 1
                          \/ last'.op = "Pop" /\ Len(new) = Len(old) - 1]_vars

C22_Witness ==
    /\ last.op = "IndexAssign" /\ ret.st = "none" /\ fault = "none"
    /\ Holds(vals["a"], "Array") /\ Len(vals["a"].array) = 2
    /\ Holds(vals["a"].array[1], "Integer")
    /\ vals["a"].array[2] = NewImpl

\* C23: Push(x) on a Value holding an Array of N elements appends one
\* element at position N; it holds the Alternative the Type Resolver picks
\* for x with the payload x; the elements 0..N-1 are as before and the size
\* is N + 1.
C23_PushAppends ==
    [][(last'.op = "Push" /\ Holds(vals[last'.d], "Array")) =>
          LET old == vals[last'.d].array
              new == vals'[last'.d].array
              T == ResolvesTo(last'.arg.ty)
          IN  /\ Holds(vals'[last'.d], "Array")
              /\ Len(new) = Len(old) + 1
              /\ SubSeq(new, 1, Len(old)) = old
              /\ Holds(new[Len(new)], T)
              /\ Member(new[Len(new)], T) = Converted(last'.arg)
              /\ new[Len(new)].audit = "ok"
              /\ ret'.st = "none" /\ fault' = "none"]_vars

\* C24: Pop() on a Value holding an Array of N > 0 elements removes the
\* last element and returns a Value equal to the one position N - 1 held;
\* the elements 0..N-2 are as before and the size is N - 1; Pop() right
\* after Push(x) returns a Value equal to x.
C24_PopReturnsLast ==
    [][(/\ last'.op = "Pop" /\ Holds(vals[last'.d], "Array")
        /\ Len(vals[last'.d].array) > 0) =>
          LET old == vals[last'.d].array
              new == vals'[last'.d].array
              N == Len(old)
          IN  /\ fault' = "none"
              /\ Holds(vals'[last'.d], "Array")
              /\ new = SubSeq(old, 1, N - 1)
              /\ ret'.st = "ok"
              /\ ret'.T = old[N].tag_
              /\ Member(ret'.p, ret'.T) = Member(old[N], old[N].tag_)
              /\ last.op = "Push" =>
                    /\ ret'.T = ResolvesTo(last.arg.ty)
                    /\ Member(ret'.p, ret'.T) = Converted(last.arg)]_vars

\* C25: Pop() on a Value holding an empty Array fails with InvalidAccess,
\* returns no Value and leaves the Array empty.
C25_PopEmptyFails ==
    (last.op = "Pop" /\ Holds(last.pre, "Array") /\ Len(last.pre.array) = 0) =>
        /\ ret.st = "InvalidAccess"
        /\ fault = "none"
        /\ vals[last.d] = last.pre

-----------------------------------------------------------------------------
(* Properties of Contains, of self-referring arguments and of failures *)

\* C26: Contains(key) on a Value holding an Object answers true exactly when
\* key is a key of the Object, so true after v[key] = x and false for a key
\* never written; it throws nothing and leaves the Object as it was, with
\* no entry added for a key that is absent.
C26_ContainsIsPure ==
    (last.op = "Contains" /\ Holds(last.pre, "Object")) =>
        /\ ret.st = (IF last.arg.v \in DOMAIN last.pre.object
                     THEN "true" ELSE "false")
        /\ fault = "none"
        /\ vals[last.d] = last.pre

C26_Witness ==
    /\ last.op = "Contains" /\ ret.st = "true" /\ last.arg.v = "0"
    /\ Holds(vals[last.d], "Object")
    /\ DOMAIN vals[last.d].object = {"0"}
    /\ Holds(vals[last.d].object["0"], "Integer")
    /\ vals[last.d].object["0"].integer = 42

\* the steps of the scenario: an Array of size 3, Push(42), Push("hi"),
\* d[1] = Array{}
ScenarioRun ==
    <<Step("From", ScenarioSize, NoArg),
      Step("Push", 0, [ty |-> "int", v |-> 42]),
      Step("Push", 0, [ty |-> "cstr", v |-> "hi"]),
      Step("Set", 1, [ty |-> "Array", v |-> <<>>])>>

\* the element at position i of d, positions counted from 0
Position(i) == vals["a"].array[i + 1]

\* C27: after the scenario (Array of size 3, Push Integer 42, Push String
\* "hi", index 1 set to an empty Array) the Array has size 5, index 0 == 42,
\* index 1 is an empty Array and index 4 == "hi".
C27_Scenario ==
    pc = ScenarioRun =>
        /\ Holds(vals["a"], "Array") /\ Len(vals["a"].array) = 5
        /\ EqualsType(Position(0), [ty |-> "int", v |-> 42])
        /\ Holds(Position(1), "Array") /\ Position(1).array = <<>>
        /\ EqualsType(Position(4), [ty |-> "cstr", v |-> "hi"])

\* C27, amended: after the scenario the Array has size 5, the elements at
\* index 0 and 2 are still Undefined, index 1 is an empty Array, and the
\* pushed values are at the end in the order of the pushes: index 3 == 42
\* and index 4 == "hi".
C27_ScenarioPushesAtEnd ==
    pc = ScenarioRun =>
        /\ fault = "none"
        /\ Holds(vals["a"], "Array") /\ Len(vals["a"].array) = 5
        /\ Position(0) = NewImpl /\ Position(2) = NewImpl
        /\ Holds(Position(1), "Array") /\ Position(1).array = <<>>
        /\ EqualsType(Position(3), [ty |-> "int", v |-> 42])
        /\ EqualsType(Position(4), [ty |-> "cstr", v |-> "hi"])

C27_Witness ==
    /\ pc = ScenarioRun /\ fault = "none"
    /\ Holds(vals["a"], "Array") /\ Len(vals["a"].array) = 5
    /\ Holds(Position(1), "Array")

\* C29: Emplace and generic assignment whose argument refers into the
\* Value's own payload (v = v.GetString(), v.Emplace<Array>(v.GetArray()),
\* v = one of v's elements) read nothing that was destroyed: v ends up
\* holding the value the source had before the operation began.
C29_OwnPayloadSurvives ==
    /\ last.op = "EmplaceOwn" =>
          /\ fault = "none"
          /\ vals[last.d] = last.pre
    /\ last.op = "AssignOwnElement" =>
          /\ fault = "none"
          /\ vals[last.d].tag_ = last.pre.tag_
          /\ Member(vals[last.d], last.pre.tag_)
                = Member(last.pre, last.pre.tag_)

\* C30: an indexing operation that fails reports an error to its caller and
\* does not end the process: on a Value holding an Array a text key that is
\* no decimal number gives an error and leaves the Array as it was, and a
\* text key that is the decimal form of n < size gives element n.
C30_IndexFailureSurfaces ==
    (last.op \in {"Index", "IndexConst"}) =>
        /\ fault = "none"
        /\ ret.st # "ok" => vals[last.d] = last.pre
        /\ (Holds(last.pre, "Array") /\ last.arg.ty = "str") =>
              IF StoulThrows(last.arg.v)
              THEN ret.st \notin {"ok", "none"}
              ELSE IndexOf(last.arg) < Len(last.pre.array) =>
                      ret = Returned(last.pre.array[IndexOf(last.arg) + 1])

\* C28: Clone() and the equality comparison terminate for every Value that
\* can be built through the public interface, those of the Shared strategy in
\* which a container holds an alias of itself or of an ancestor included:
\* neither ever ends in the stack being used up.
C28_CloneAndEqualsTerminate ==
    last.op \in {"Clone", "Equals"} => fault = "none"

====
